---- MODULE Spec2Model ----
(***************************************************************************)
(* git-sniff-otter: the aggregation stage (DataTransformer, AuthorStats,   *)
(* RepositoryStats), the report composer's fallback decision               *)
(* (LLMReportGenerator.generate_report) and the delivery adapter           *)
(* (SlackSender) as state machines.                                        *)
(*                                                                         *)
(* Text is a sequence of one-character strings, so that split, strip,      *)
(* startswith, lower and len are computed as the Python code computes them.*)
(***************************************************************************)
EXTENDS Integers, Sequences, FiniteSets, TLC

VARIABLES
    \* ---- SlackSender -------------------------------------------------
    call,             \* which entry point runs: "split" (a direct call of
                      \* _split_report_by_sections), or send_report with
                      \* "bot" (self.client set), "webhook" (only webhook_url)
                      \* or "none" (neither)
    report,           \* the report text
    title,            \* the title text
    max_length,       \* the size ceiling (4000 in the source, see Ceilings)
    pc,               \* position inside the running call
    lines,            \* report.split("\n")
    idx,              \* index of the next line / next section of the loops
    sections,         \* _split_report_by_sections: sections
    current_section,  \* _split_report_by_sections: current_section
    posted,           \* texts the chat API or the webhook accepted, in order
    attempts,         \* texts handed to the chat API or the webhook, in order
    result,           \* return value of send_report ("running" before it returns)
    \* ---- DataTransformer.transform -----------------------------------
    repository_data_list, \* the input: a list of RepositoryData (name, commits)
    tpc,              \* position inside transform / generate_report
    fold_pos,         \* index of the next commit of the author loop
    repository_stats, \* transformed.repository_stats
    author_map,       \* author_map: a dict, kept in insertion order
    author_stats,     \* transformed.author_stats
    start_date,       \* DataTransformer.start_date
    end_date,         \* DataTransformer.end_date
    time_window,      \* transformed.time_window
    overall_stats,    \* transformed.overall_stats
    \* ---- LLMReportGenerator.generate_report ---------------------------
    generated,        \* the outcome of the model call and the text
                      \* generate_report returned (None before)
    document,         \* the dict handed to _generate_fallback_report by a
                      \* direct caller, as it is after the calls (None before)
    fallback_texts,   \* the texts those calls returned, in call order
    \* ---- Config, load_config and the analyze command -----------------
    env,              \* os.environ after load_dotenv: a value per variable,
                      \* None when the variable is not set
    cli_repos,        \* --repos: what each given path is on disk
    dry_run,          \* --dry-run
    save_report,      \* --save-report given
    apc,              \* position inside the analyze command, or "construct"
                      \* for a direct construction of Config
    config_args,      \* the keyword arguments Config is constructed with
    constructed,      \* what the construction gave (None before)
    app_config,       \* analyze: app_config (None before load_config returns)
    invoked,          \* the stage methods analyze has invoked, in order
    returned,         \* the value analyze returned (None before)
    exit_status,      \* the exit status of the process (None while it runs)
    \* ---- DataCollector.collect_all_data -------------------------------
    config_paths,     \* config.repository_paths
    cpc,              \* position inside collect_all_data
    cidx,             \* index of the next path of the loop
    all_repo_data,    \* all_repo_data
    tool_runs,        \* the invocations of the statistics tool made for the
                      \* repository processed last: format and outcome
    last_query        \* the commits that repository holds and what the
                      \* commit query did (None before)

slackVars == <<call, report, title, max_length, pc, lines, idx, sections,
               current_section, posted, attempts, result>>

transformVars == <<repository_data_list, tpc, fold_pos, repository_stats, author_map,
                   author_stats, start_date, end_date, time_window, overall_stats,
                   generated, document, fallback_texts>>

cliVars == <<env, cli_repos, dry_run, save_report, apc, config_args, constructed,
             app_config, invoked, returned, exit_status>>

collectVars == <<config_paths, cpc, cidx, all_repo_data, tool_runs, last_query>>

stageVars == <<cliVars, collectVars>>

vars == <<slackVars, transformVars, stageVars>>

(***************************************************************************)
(* Bounds of the model.                                                    *)
(***************************************************************************)
MaxReportLen == 5      \* longest report text drawn
MaxCeil == 4           \* largest ceiling drawn
MaxRepos == 2          \* most repositories in one input
MaxCommits == 3        \* most commits in one input, over all repositories
MaxDocCommits == 2     \* the same, for the inputs whose report is generated
MaxFallbackCalls == 2  \* most direct calls of _generate_fallback_report
MaxScenarioCommits == 2 \* most commits in one input of the end-to-end scenario
MaxAnalyzeReportLen == 2 \* longest report text an analyze run generates
MaxLongCommits == 21   \* most commits in one input that reaches the cut-offs
MaxMessageLen == 101   \* longest commit message of these inputs
MaxExtensions == 11    \* most file extensions of these inputs, besides py

Chars == {"a", " ", "#", "\n"}
Titles == { <<>>, <<"T">> }
Ceilings == 1..MaxCeil

RECURSIVE TextsUpTo(_)
TextsUpTo(n) ==
    IF n = 0 THEN { <<>> }
    ELSE LET shorter == TextsUpTo(n - 1)
         IN  shorter \cup { Append(t, c) : t \in { s \in shorter : Len(s) = n - 1 }, c \in Chars }

Reports == TextsUpTo(MaxReportLen)

(***************************************************************************)
(* Python string primitives.                                               *)
(***************************************************************************)
IsSpace(c) == c \in {" ", "\n"}

\* str.strip(): drop leading and trailing whitespace
Strip(s) ==
    LET keep == { i \in 1..Len(s) : ~IsSpace(s[i]) }
    IN  IF keep = {} THEN <<>>
        ELSE LET lo == CHOOSE i \in keep : \A j \in keep : i <= j
                 hi == CHOOSE i \in keep : \A j \in keep : j <= i
             IN  SubSeq(s, lo, hi)

\* str.split("\n")
RECURSIVE SplitLines(_)
SplitLines(s) ==
    LET nl == { i \in 1..Len(s) : s[i] = "\n" }
    IN  IF nl = {} THEN << s >>
        ELSE LET k == CHOOSE i \in nl : \A j \in nl : i <= j
             IN  << SubSeq(s, 1, k - 1) >> \o SplitLines(SubSeq(s, k + 1, Len(s)))

\* line.startswith("##")
StartsWithHeader(line) == Len(line) >= 2 /\ line[1] = "#" /\ line[2] = "#"

\* len(current_section) > max_length * 0.7
OverSeventyPercent(n, ceiling) == 10 * n > 7 * ceiling

\* f"*{title}*\n\n{report}"
SingleMessageText(t, r) == <<"*">> \o t \o <<"*", "\n", "\n">> \o r

\* f"*{title}*"
TitleText(t) == <<"*">> \o t \o <<"*">>

(***************************************************************************)
(* SlackSender._split_report_by_sections, one loop iteration per step.     *)
(***************************************************************************)
\* AfterLengthCheck with the line that overflows the buffer left out of the
\* new buffer
AfterLengthCheckDropsLine(cur, line, ceiling) ==
    IF Len(cur) + Len(line) + 1 > ceiling
    THEN <<>>
    ELSE IF cur # <<>> THEN cur \o <<"\n">> \o line ELSE line

\* lines 194-202: the buffer after the length check on one line
AfterLengthCheck(cur, line, ceiling) ==
    IF Len(cur) + Len(line) + 1 > ceiling
    THEN line
    ELSE IF cur # <<>> THEN cur \o <<"\n">> \o line ELSE line

\* lines 194-196: the chunk completed by the length check, if any
FlushedByLength(cur, line, ceiling) ==
    IF Len(cur) + Len(line) + 1 > ceiling /\ Strip(cur) # <<>>
    THEN << Strip(cur) >>
    ELSE << >>

\* lines 205-208: the header break on the buffer that now holds the line
HeaderBreak(cur, line, ceiling) ==
    /\ StartsWithHeader(line)
    /\ Strip(cur) # <<>>
    /\ OverSeventyPercent(Len(cur), ceiling)

SplitLine ==
    /\ pc = "split"
    /\ idx <= Len(lines)
    /\ LET line  == lines[idx]
           cur1  == AfterLengthCheck(current_section, line, max_length)
           secs1 == sections \o FlushedByLength(current_section, line, max_length)
       IN  IF HeaderBreak(cur1, line, max_length)
           THEN /\ sections' = Append(secs1, Strip(cur1))
                /\ current_section' = <<>>
           ELSE /\ sections' = secs1
                /\ current_section' = cur1
    /\ idx' = idx + 1
    /\ UNCHANGED <<call, report, title, max_length, pc, lines, posted, attempts, result>>
    /\ UNCHANGED transformVars
    /\ UNCHANGED stageVars

\* the last section appended whenever the buffer is not empty
\* (if current_section: ...), blank or not
SplitFinishAppendsBlank ==
    /\ pc = "split"
    /\ idx > Len(lines)
    /\ sections' = IF current_section # <<>>
                   THEN Append(sections, Strip(current_section))
                   ELSE sections
    /\ pc' = IF call = "split" THEN "done" ELSE "post"
    /\ idx' = 1
    /\ UNCHANGED <<call, report, title, max_length, lines, current_section,
                   posted, attempts, result>>
    /\ UNCHANGED transformVars
    /\ UNCHANGED stageVars

\* lines 210-214: the last section, and the return
SplitFinish ==
    /\ pc = "split"
    /\ idx > Len(lines)
    /\ sections' = IF Strip(current_section) # <<>>
                   THEN Append(sections, Strip(current_section))
                   ELSE sections
    /\ pc' = IF call = "split" THEN "done" ELSE "post"
    /\ idx' = 1
    /\ UNCHANGED <<call, report, title, max_length, lines, current_section,
                   posted, attempts, result>>
    /\ UNCHANGED transformVars
    /\ UNCHANGED stageVars

(***************************************************************************)
(* SlackSender.send_report and the two transports.  A post is one call of  *)
(* chat_postMessage or requests.post; the service accepts it or the call   *)
(* fails (SlackApiError, any other exception, a non-200 status).           *)
(***************************************************************************)
\* _send_via_bot_token, lines 93-102: the report fits, one message
BotSingle ==
    /\ pc = "send"
    /\ call = "bot"
    /\ Len(report) <= max_length
    /\ \E ok \in BOOLEAN :
         /\ attempts' = Append(attempts, SingleMessageText(title, report))
         /\ posted' = IF ok THEN Append(posted, SingleMessageText(title, report)) ELSE posted
         /\ result' = IF ok THEN "True" ELSE "False"
    /\ pc' = "done"
    /\ UNCHANGED <<call, report, title, max_length, lines, idx, sections, current_section>>
    /\ UNCHANGED transformVars
    /\ UNCHANGED stageVars

\* _send_long_report_via_bot, lines 118-127: the title first, then the split
BotTitle ==
    /\ pc = "send"
    /\ call = "bot"
    /\ Len(report) > max_length
    /\ attempts' = Append(attempts, TitleText(title))
    /\ \E ok \in BOOLEAN :
         IF ok
         THEN /\ posted' = Append(posted, TitleText(title))
              /\ pc' = "split"
              /\ lines' = SplitLines(report)
              /\ result' = result
         ELSE /\ posted' = posted
              /\ pc' = "done"
              /\ lines' = lines
              /\ result' = "False"
    /\ UNCHANGED <<call, report, title, max_length, idx, sections, current_section>>
    /\ UNCHANGED transformVars
    /\ UNCHANGED stageVars

\* the loop of _send_long_report_via_bot catching the failure of a post
\* inside the loop and going on with the next section
PostSectionKeepsGoing ==
    /\ pc = "post"
    /\ idx <= Len(sections)
    /\ IF Strip(sections[idx]) # <<>>
       THEN /\ attempts' = Append(attempts, sections[idx])
            /\ \E ok \in BOOLEAN :
                 IF ok
                 THEN /\ posted' = Append(posted, sections[idx])
                      /\ pc' = pc
                      /\ result' = result
                 ELSE /\ posted' = posted
                      /\ pc' = pc
                      /\ result' = "False"
       ELSE UNCHANGED <<attempts, posted, pc, result>>
    /\ idx' = idx + 1
    /\ UNCHANGED <<call, report, title, max_length, lines, sections, current_section>>
    /\ UNCHANGED transformVars
    /\ UNCHANGED stageVars

\* the loop of _send_long_report_via_bot walking the sections from the last
PostSectionFromEnd ==
    /\ pc = "post"
    /\ idx <= Len(sections)
    /\ LET section == sections[Len(sections) + 1 - idx]
       IN  IF Strip(section) # <<>>
           THEN /\ attempts' = Append(attempts, section)
                /\ \E ok \in BOOLEAN :
                     IF ok
                     THEN /\ posted' = Append(posted, section)
                          /\ pc' = pc
                          /\ result' = result
                     ELSE /\ posted' = posted
                          /\ pc' = "done"
                          /\ result' = "False"
           ELSE UNCHANGED <<attempts, posted, pc, result>>
    /\ idx' = idx + 1
    /\ UNCHANGED <<call, report, title, max_length, lines, sections, current_section>>
    /\ UNCHANGED transformVars
    /\ UNCHANGED stageVars

\* _send_long_report_via_bot, lines 129-133: one section of the loop
PostSection ==
    /\ pc = "post"
    /\ idx <= Len(sections)
    /\ IF Strip(sections[idx]) # <<>>
       THEN /\ attempts' = Append(attempts, sections[idx])
            /\ \E ok \in BOOLEAN :
                 IF ok
                 THEN /\ posted' = Append(posted, sections[idx])
                      /\ pc' = pc
                      /\ result' = result
                 ELSE /\ posted' = posted
                      /\ pc' = "done"
                      /\ result' = "False"
       ELSE UNCHANGED <<attempts, posted, pc, result>>
    /\ idx' = idx + 1
    /\ UNCHANGED <<call, report, title, max_length, lines, sections, current_section>>
    /\ UNCHANGED transformVars
    /\ UNCHANGED stageVars

\* _send_long_report_via_bot, lines 135-138
PostDone ==
    /\ pc = "post"
    /\ idx > Len(sections)
    /\ result' = "True"
    /\ pc' = "done"
    /\ UNCHANGED <<call, report, title, max_length, lines, idx, sections,
                   current_section, posted, attempts>>
    /\ UNCHANGED transformVars
    /\ UNCHANGED stageVars

\* _send_via_webhook, lines 146-181: one payload, whatever its length
SendWebhook ==
    /\ pc = "send"
    /\ call = "webhook"
    /\ attempts' = Append(attempts, SingleMessageText(title, report))
    /\ \E status \in {"200", "500", "raise"} :
         /\ posted' = IF status = "200"
                      THEN Append(posted, SingleMessageText(title, report))
                      ELSE posted
         /\ result' = IF status = "200" THEN "True" ELSE "False"
    /\ pc' = "done"
    /\ UNCHANGED <<call, report, title, max_length, lines, idx, sections, current_section>>
    /\ UNCHANGED transformVars
    /\ UNCHANGED stageVars

\* send_report, lines 81-85: neither transport configured
SendNoConfig ==
    /\ pc = "send"
    /\ call = "none"
    /\ result' = "False"
    /\ pc' = "done"
    /\ UNCHANGED <<call, report, title, max_length, lines, idx, sections,
                   current_section, posted, attempts>>
    /\ UNCHANGED transformVars
    /\ UNCHANGED stageVars

(***************************************************************************)
(* Inputs of the aggregation stage: CommitData records.  author_name and   *)
(* author_email are strings; a date counts half days, so that two dates    *)
(* less than a day apart and two dates several days apart both occur;      *)
(* file paths and messages are texts.                                      *)
(***************************************************************************)
\* (author_name, author_email): one email under two names, one name under two
\* emails, and names and emails that hold a ":"
Authors == { <<"a", "c">>, <<"a:b", "c">>, <<"a", "b:c">> }
AuthorEmails == { p[2] : p \in Authors }

Makefile == <<"M", "k">>                        \* no "."
APy      == <<"a", ".", "p", "y">>              \* a.py
BPyUpper == <<"b", ".", "P", "Y">>              \* b.PY
XTarGz   == <<"x", ".", "t", ".", "G", "Z">>    \* x.t.GZ, two "."
BMd      == <<"b", ".", "m", "d">>              \* b.md

Changes ==
    { [date |-> 0, message |-> <<"m", "1">>, files_changed |-> <<Makefile, XTarGz, APy>>,
       insertions |-> 2, deletions |-> 0],
      [date |-> 3, message |-> <<"m", "2">>, files_changed |-> <<BPyUpper, APy>>,
       insertions |-> 1, deletions |-> 3] }

\* CommitData.__init__
CommitData(n, e, c) ==
    [author_name |-> n, author_email |-> e, message |-> c.message, date |-> c.date,
     files_changed |-> c.files_changed, insertions |-> c.insertions,
     deletions |-> c.deletions, lines_changed |-> c.insertions + c.deletions]

Commits == { CommitData(p[1], p[2], c) : p \in Authors, c \in Changes }

\* analysis windows: seven days, no day at all, half a day, and an end half a
\* day before the start
SevenDays == [start |-> 0, end |-> 14]
Windows == { SevenDays, [start |-> 3, end |-> 3], [start |-> 3, end |-> 4],
             [start |-> 4, end |-> 3] }

CommitSeqs == UNION { [1..n -> Commits] : n \in 0..MaxCommits }

\* the commit of the end-to-end scenario (50 insertions, 10 deletions, a.py and
\* b.md, one day before the end of the window), and the inputs built from it
\* and from one other commit
ScenarioChange ==
    [date |-> 12, message |-> <<"m", "3">>, files_changed |-> <<APy, BMd>>,
     insertions |-> 50, deletions |-> 10]

ScenarioCommits ==
    { CommitData(p[1], p[2], c) :
        p \in Authors, c \in {ScenarioChange} \cup { d \in Changes : d.date = 3 } }

ScenarioSeqs == UNION { [1..n -> ScenarioCommits] : n \in 0..MaxScenarioCommits }

\* RepositoryData.__init__
RepositoryData(i, commits) ==
    [name |-> "repo" \o ToString(i), path |-> "/src/repo" \o ToString(i), commits |-> commits]

\* the commits of the input in the order of the two nested loops of transform
RECURSIVE FoldOrder(_)
FoldOrder(list) ==
    IF list = <<>> THEN <<>>
    ELSE [j \in 1..Len(Head(list).commits) |->
             [commit |-> Head(list).commits[j], repo_name |-> Head(list).name]]
         \o FoldOrder(Tail(list))

(***************************************************************************)
(* Python primitives of the aggregation.                                   *)
(***************************************************************************)
\* str.lower() on the letters that occur
Lower(c) ==
    CASE c = "G" -> "g" [] c = "Z" -> "z" [] c = "P" -> "p" [] c = "Y" -> "y"
      [] c = "M" -> "m" [] OTHER -> c

\* "." in file_path
HasDot(file_path) == \E i \in 1..Len(file_path) : file_path[i] = "."

\* file_path.split(".")
RECURSIVE SplitDots(_)
SplitDots(s) ==
    LET dots == { i \in 1..Len(s) : s[i] = "." }
    IN  IF dots = {} THEN << s >>
        ELSE LET d == CHOOSE i \in dots : \A j \in dots : i <= j
             IN  << SubSeq(s, 1, d - 1) >> \o SplitDots(SubSeq(s, d + 1, Len(s)))

\* Extension taking the part after the first "." (split(".")[1])
ExtensionAfterFirstDot(file_path) ==
    LET parts == SplitDots(file_path)
        part  == parts[2]
    IN  [i \in 1..Len(part) |-> Lower(part[i])]

\* file_path.split(".")[-1].lower()
Extension(file_path) ==
    LET parts == SplitDots(file_path)
        last  == parts[Len(parts)]
    IN  [i \in 1..Len(last) |-> Lower(last[i])]

\* A Counter (a dict) is the sequence of its items in insertion order.
EmptyCounter == << >>

CounterKeys(counter) == { counter[i].key : i \in 1..Len(counter) }

\* counter[key], 0 for a key the Counter does not hold
CounterGet(counter, key) ==
    IF key \in CounterKeys(counter)
    THEN counter[CHOOSE i \in 1..Len(counter) : counter[i].key = key].count
    ELSE 0

\* counter[key] += 1
CounterInc(counter, key) ==
    IF key \in CounterKeys(counter)
    THEN [i \in 1..Len(counter) |->
             IF counter[i].key = key
             THEN [key |-> key, count |-> counter[i].count + 1]
             ELSE counter[i]]
    ELSE Append(counter, [key |-> key, count |-> 1])

\* sorted(items, key=..., reverse=True) on items [sort_key, item]: a stable
\* sort, so an item goes behind the items with a larger key and ahead of the
\* later items with the same key
RECURSIVE SortedDescending(_)
SortedDescending(items) ==
    IF items = <<>> THEN <<>>
    ELSE LET rest == SortedDescending(Tail(items))
             h    == Head(items)
             p    == Cardinality({ i \in 1..Len(rest) : rest[i].sort_key > h.sort_key })
         IN  SubSeq(rest, 1, p) \o <<h>> \o SubSeq(rest, p + 1, Len(rest))

\* seq[:n]
Take(seq, n) == SubSeq(seq, 1, IF Len(seq) < n THEN Len(seq) ELSE n)

\* dict(counter.most_common(n))
MostCommon(counter, n) ==
    LET sorted == SortedDescending([i \in 1..Len(counter) |->
                      [sort_key |-> counter[i].count, item |-> counter[i]]])
    IN  Take([i \in 1..Len(sorted) |-> sorted[i].item], n)

\* the "Track file types" loop of add_commit and of RepositoryStats.__init__
RECURSIVE TrackFileTypes(_, _)
TrackFileTypes(counter, files) ==
    IF files = <<>> THEN counter
    ELSE TrackFileTypes(
             IF HasDot(Head(files))
             THEN CounterInc(counter, Extension(Head(files)))
             ELSE counter,
             Tail(files))

\* set.update(list)
SetOf(seq) == { seq[i] : i \in 1..Len(seq) }

None == << >>

\* str(n)
Str(n) == ToString(n)

\* f"{n:,}": str(n) with a comma between groups of three digits
RECURSIVE WithCommas(_)
WithCommas(n) ==
    IF n < 0 THEN "-" \o WithCommas(0 - n)
    ELSE IF n < 1000 THEN Str(n)
    ELSE LET low == n % 1000
         IN  WithCommas(n \div 1000) \o ","
             \o (IF low < 10 THEN "00" ELSE IF low < 100 THEN "0" ELSE "") \o Str(low)

\* datetime.isoformat(): the text of a date
IsoFormat(d) == "D" \o Str(d)

\* max without the floor: the first argument whatever the second
MaxOfFirst(a, b) == a

\* max(a, b)
Max(a, b) == IF a > b THEN a ELSE b

\* the difference of the two dates in the unit the dates count, not in days
DaysCountsHalfDays(later, earlier) == later - earlier

\* timedelta.days of later - earlier; a date counts half days
Days(later, earlier) == (later - earlier) \div 2

(***************************************************************************)
(* AuthorStats.  A date field is None or the tuple <<d>> of a date d.       *)
(***************************************************************************)

\* AuthorStats.__init__
AuthorStats(name, email) ==
    [name |-> name, email |-> email, total_commits |-> 0, total_insertions |-> 0,
     total_deletions |-> 0, total_files_changed |-> 0, repositories |-> {},
     file_types |-> EmptyCounter, commit_messages |-> <<>>,
     first_commit_date |-> None, last_commit_date |-> None]

\* add_commit assigning the insertions of the commit instead of adding them
AddCommitAssignsInsertions(a, commit, repo_name) ==
    [a EXCEPT
       !.total_commits = @ + 1,
       !.total_insertions = commit.insertions,
       !.total_deletions = @ + commit.deletions,
       !.total_files_changed = @ + Len(commit.files_changed),
       !.repositories = @ \cup {repo_name},
       !.commit_messages = Append(@, commit.message),
       !.file_types = TrackFileTypes(@, commit.files_changed),
       !.first_commit_date = IF @ = None \/ commit.date < @[1] THEN <<commit.date>> ELSE @,
       !.last_commit_date = IF @ = None \/ commit.date > @[1] THEN <<commit.date>> ELSE @]

\* add_commit counting one per commit that changed files, not one per file
AddCommitCountsCommits(a, commit, repo_name) ==
    [a EXCEPT
       !.total_commits = @ + 1,
       !.total_insertions = @ + commit.insertions,
       !.total_deletions = @ + commit.deletions,
       !.total_files_changed = @ + (IF commit.files_changed # <<>> THEN 1 ELSE 0),
       !.repositories = @ \cup {repo_name},
       !.commit_messages = Append(@, commit.message),
       !.file_types = TrackFileTypes(@, commit.files_changed),
       !.first_commit_date = IF @ = None \/ commit.date < @[1] THEN <<commit.date>> ELSE @,
       !.last_commit_date = IF @ = None \/ commit.date > @[1] THEN <<commit.date>> ELSE @]

\* AuthorStats.add_commit
AddCommit(a, commit, repo_name) ==
    [a EXCEPT
       !.total_commits = @ + 1,
       !.total_insertions = @ + commit.insertions,
       !.total_deletions = @ + commit.deletions,
       !.total_files_changed = @ + Len(commit.files_changed),
       !.repositories = @ \cup {repo_name},
       !.commit_messages = Append(@, commit.message),
       !.file_types = TrackFileTypes(@, commit.files_changed),
       !.first_commit_date = IF @ = None \/ commit.date < @[1] THEN <<commit.date>> ELSE @,
       !.last_commit_date = IF @ = None \/ commit.date > @[1] THEN <<commit.date>> ELSE @]

\* _calculate_active_days without the "+ 1"
CalculateActiveDaysOffByOne(a) ==
    IF a.first_commit_date # None /\ a.last_commit_date # None
    THEN Days(a.last_commit_date[1], a.first_commit_date[1])
    ELSE 0

\* AuthorStats._calculate_active_days
CalculateActiveDays(a) ==
    IF a.first_commit_date # None /\ a.last_commit_date # None
    THEN Days(a.last_commit_date[1], a.first_commit_date[1]) + 1
    ELSE 0

(***************************************************************************)
(* RepositoryStats.                                                        *)
(***************************************************************************)
\* the loop body marking a truncated message: message[:97] + "..."
RepoAddCommitEllipsis(r, commit) ==
    [r EXCEPT
       !.unique_authors = @ \cup {commit.author_email},
       !.total_insertions = @ + commit.insertions,
       !.total_deletions = @ + commit.deletions,
       !.total_files_changed = @ \cup SetOf(commit.files_changed),
       !.file_types = TrackFileTypes(@, commit.files_changed),
       !.commit_timeline = Append(@,
           [date |-> IsoFormat(commit.date), author |-> commit.author_name,
            message |-> IF Len(commit.message) > 100
                        THEN Take(commit.message, 97) \o <<".", ".", ".">>
                        ELSE commit.message,
            changes |-> commit.lines_changed])]

\* the loop body collecting display names: unique_authors.add(commit.author_name)
RepoAddCommitByName(r, commit) ==
    [r EXCEPT
       !.unique_authors = @ \cup {commit.author_name},
       !.total_insertions = @ + commit.insertions,
       !.total_deletions = @ + commit.deletions,
       !.total_files_changed = @ \cup SetOf(commit.files_changed),
       !.file_types = TrackFileTypes(@, commit.files_changed),
       !.commit_timeline = Append(@,
           [date |-> IsoFormat(commit.date), author |-> commit.author_name,
            message |-> Take(commit.message, 100), changes |-> commit.lines_changed])]

\* one iteration of the loop of RepositoryStats.__init__
RepoAddCommit(r, commit) ==
    [r EXCEPT
       !.unique_authors = @ \cup {commit.author_email},
       !.total_insertions = @ + commit.insertions,
       !.total_deletions = @ + commit.deletions,
       !.total_files_changed = @ \cup SetOf(commit.files_changed),
       !.file_types = TrackFileTypes(@, commit.files_changed),
       !.commit_timeline = Append(@,
           [date |-> IsoFormat(commit.date), author |-> commit.author_name,
            message |-> Take(commit.message, 100), changes |-> commit.lines_changed])]

RECURSIVE RepoFold(_, _)
RepoFold(r, commits) ==
    IF commits = <<>> THEN r
    ELSE RepoFold(RepoAddCommit(r, Head(commits)), Tail(commits))

\* RepositoryStats.__init__
RepositoryStats(repo_data) ==
    RepoFold(
        [name |-> repo_data.name, path |-> repo_data.path,
         total_commits |-> Len(repo_data.commits), unique_authors |-> {},
         total_insertions |-> 0, total_deletions |-> 0, total_files_changed |-> {},
         file_types |-> EmptyCounter, commit_timeline |-> <<>>],
        repo_data.commits)

(***************************************************************************)
(* DataTransformer.transform.                                              *)
(***************************************************************************)
\* the author key canonicalized by email
AuthorKeyByEmail(name, email) == email

\* f"{commit.author_name}:{commit.author_email}"
AuthorKey(name, email) == name \o ":" \o email

\* author_key in author_map
InMap(map, key) == \E i \in 1..Len(map) : map[i].key = key

\* the position of author_map[author_key]
MapIndex(map, key) == CHOOSE i \in 1..Len(map) : map[i].key = key

\* a descending sort that is not stable: among equal counts the later comes first
RECURSIVE TiesReversed(_)
TiesReversed(items) ==
    IF items = <<>> THEN <<>>
    ELSE LET rest == TiesReversed(Tail(items))
             h    == Head(items)
             p    == Cardinality({ i \in 1..Len(rest) : rest[i].sort_key >= h.sort_key })
         IN  SubSeq(rest, 1, p) \o <<h>> \o SubSeq(rest, p + 1, Len(rest))

SortByCommitsDescTiesReversed(authors) ==
    LET sorted == TiesReversed([i \in 1..Len(authors) |->
                      [sort_key |-> authors[i].total_commits, item |-> authors[i]]])
    IN  [i \in 1..Len(sorted) |-> sorted[i].item]

\* author_stats.sort(key=lambda a: a.total_commits, reverse=True)
SortByCommitsDesc(authors) ==
    LET sorted == SortedDescending([i \in 1..Len(authors) |->
                      [sort_key |-> authors[i].total_commits, item |-> authors[i]]])
    IN  [i \in 1..Len(sorted) |-> sorted[i].item]

\* sum(repo.<field> for repo in repo_stats)
RECURSIVE SumOver(_, _)
SumOver(repo_stats, field) ==
    IF repo_stats = <<>> THEN 0
    ELSE Head(repo_stats)[field] + SumOver(Tail(repo_stats), field)

\* dict.update(other): the count of other replaces the count held, key by key
RECURSIVE CounterUpdateReplaces(_, _)
CounterUpdateReplaces(counter, other) ==
    IF other = <<>> THEN counter
    ELSE LET key == Head(other).key
             added ==
                 IF key \in CounterKeys(counter)
                 THEN [i \in 1..Len(counter) |->
                          IF counter[i].key = key
                          THEN [key |-> key, count |-> Head(other).count]
                          ELSE counter[i]]
                 ELSE Append(counter, Head(other))
         IN  CounterUpdateReplaces(added, Tail(other))

\* Counter.update(other): add the counts of other, key by key
RECURSIVE CounterUpdate(_, _)
CounterUpdate(counter, other) ==
    IF other = <<>> THEN counter
    ELSE LET key == Head(other).key
             added ==
                 IF key \in CounterKeys(counter)
                 THEN [i \in 1..Len(counter) |->
                          IF counter[i].key = key
                          THEN [key |-> key, count |-> counter[i].count + Head(other).count]
                          ELSE counter[i]]
                 ELSE Append(counter, Head(other))
         IN  CounterUpdate(added, Tail(other))

\* for repo in repo_stats: all_file_types.update(repo.file_types)
RECURSIVE UpdateAll(_, _)
UpdateAll(counter, repo_stats) ==
    IF repo_stats = <<>> THEN counter
    ELSE UpdateAll(CounterUpdate(counter, Head(repo_stats).file_types), Tail(repo_stats))

\* a / b, the quotient kept as the pair of its terms
Ratio(a, b) == [num |-> a, den |-> b]

\* _calculate_overall_stats with net_lines floored at 0
CalculateOverallStatsNetFloored(repo_stats, authors, start, end) ==
    LET total_commits    == SumOver(repo_stats, "total_commits")
        total_insertions == SumOver(repo_stats, "total_insertions")
        total_deletions  == SumOver(repo_stats, "total_deletions")
        all_file_types   == UpdateAll(EmptyCounter, repo_stats)
        top_authors      == Take(authors, 5)
    IN  [total_commits |-> total_commits,
         total_insertions |-> total_insertions,
         total_deletions |-> total_deletions,
         net_lines |-> Max(total_insertions - total_deletions, 0),
         total_repositories |-> Len(repo_stats),
         total_authors |-> Len(authors),
         top_file_types |-> MostCommon(all_file_types, 10),
         top_authors_by_commits |->
             [i \in 1..Len(top_authors) |->
                 [name |-> top_authors[i].name, commits |-> top_authors[i].total_commits]],
         avg_commits_per_day |-> Ratio(total_commits, Max(Days(end, start), 1))]

\* _calculate_overall_stats
CalculateOverallStats(repo_stats, authors, start, end) ==
    LET total_commits    == SumOver(repo_stats, "total_commits")
        total_insertions == SumOver(repo_stats, "total_insertions")
        total_deletions  == SumOver(repo_stats, "total_deletions")
        all_file_types   == UpdateAll(EmptyCounter, repo_stats)
        top_authors      == Take(authors, 5)
    IN  [total_commits |-> total_commits,
         total_insertions |-> total_insertions,
         total_deletions |-> total_deletions,
         net_lines |-> total_insertions - total_deletions,
         total_repositories |-> Len(repo_stats),
         total_authors |-> Len(authors),
         top_file_types |-> MostCommon(all_file_types, 10),
         top_authors_by_commits |->
             [i \in 1..Len(top_authors) |->
                 [name |-> top_authors[i].name, commits |-> top_authors[i].total_commits]],
         avg_commits_per_day |-> Ratio(total_commits, Max(Days(end, start), 1))]

\* lines 174-186: the time window and the repository statistics, one per
\* input repository
TransformRepositories ==
    /\ tpc = "repos"
    /\ time_window' = [start_date |-> IsoFormat(start_date),
                       end_date |-> IsoFormat(end_date),
                       duration_days |-> Days(end_date, start_date)]
    /\ repository_stats' = [i \in 1..Len(repository_data_list) |->
                               RepositoryStats(repository_data_list[i])]
    /\ tpc' = "authors"
    /\ UNCHANGED <<repository_data_list, fold_pos, author_map, author_stats, start_date,
                   end_date, overall_stats, generated>>
    /\ UNCHANGED <<document, fallback_texts>>
    /\ UNCHANGED slackVars
    /\ UNCHANGED stageVars

\* the loop creating the AuthorStats for a new author_key and going on to the
\* next commit without add_commit
NewAuthorSkipsCommit ==
    /\ tpc = "authors"
    /\ LET order  == FoldOrder(repository_data_list)
           commit == order[fold_pos].commit
           key    == AuthorKey(commit.author_name, commit.author_email)
       IN  /\ fold_pos <= Len(order)
           /\ ~InMap(author_map, key)
           /\ author_map' = Append(author_map,
                  [key |-> key,
                   stats |-> AuthorStats(commit.author_name, commit.author_email)])
    /\ fold_pos' = fold_pos + 1
    /\ UNCHANGED <<repository_data_list, tpc, repository_stats, author_stats,
                   start_date, end_date, time_window, overall_stats, generated>>
    /\ UNCHANGED <<document, fallback_texts>>
    /\ UNCHANGED slackVars
    /\ UNCHANGED stageVars

\* lines 195-198: a commit of an author_key the map does not hold yet
NewAuthor ==
    /\ tpc = "authors"
    /\ LET order  == FoldOrder(repository_data_list)
           commit == order[fold_pos].commit
           key    == AuthorKey(commit.author_name, commit.author_email)
       IN  /\ fold_pos <= Len(order)
           /\ ~InMap(author_map, key)
           /\ author_map' = Append(author_map,
                  [key |-> key,
                   stats |-> AuthorStats(commit.author_name, commit.author_email)])
    /\ UNCHANGED <<repository_data_list, tpc, fold_pos, repository_stats, author_stats,
                   start_date, end_date, time_window, overall_stats, generated>>
    /\ UNCHANGED <<document, fallback_texts>>
    /\ UNCHANGED slackVars
    /\ UNCHANGED stageVars

\* line 200: author_map[author_key].add_commit(commit, repo_data.name)
FoldCommit ==
    /\ tpc = "authors"
    /\ LET order  == FoldOrder(repository_data_list)
           entry  == order[fold_pos]
           key    == AuthorKey(entry.commit.author_name, entry.commit.author_email)
       IN  /\ fold_pos <= Len(order)
           /\ InMap(author_map, key)
           /\ author_map' = [author_map EXCEPT ![MapIndex(author_map, key)].stats =
                                AddCommit(@, entry.commit, entry.repo_name)]
    /\ fold_pos' = fold_pos + 1
    /\ UNCHANGED <<repository_data_list, tpc, repository_stats, author_stats,
                   start_date, end_date, time_window, overall_stats, generated>>
    /\ UNCHANGED <<document, fallback_texts>>
    /\ UNCHANGED slackVars
    /\ UNCHANGED stageVars

\* lines 202-212: the values of the map, sorted by total commits descending,
\* and the overall statistics
FinishTransform ==
    /\ tpc = "authors"
    /\ fold_pos > Len(FoldOrder(repository_data_list))
    /\ LET sorted == SortByCommitsDesc([i \in 1..Len(author_map) |-> author_map[i].stats])
       IN  /\ author_stats' = sorted
           /\ overall_stats' = CalculateOverallStats(repository_stats, sorted,
                                                     start_date, end_date)
    /\ tpc' = "done"
    /\ UNCHANGED <<repository_data_list, fold_pos, repository_stats, author_map,
                   start_date, end_date, time_window, generated>>
    /\ UNCHANGED <<document, fallback_texts>>
    /\ UNCHANGED slackVars
    /\ UNCHANGED stageVars

(***************************************************************************)
(* The report document (TransformedData.to_dict) and                       *)
(* LLMReportGenerator.  A generated text is a sequence of strings: the     *)
(* characters of a model response, or the pieces of the fallback template. *)
(***************************************************************************)
\* to_dict taking the last 10 messages (commit_messages[-10:])
AuthorToDictLastMessages(a) ==
    [name |-> a.name,
     email |-> a.email,
     total_commits |-> a.total_commits,
     total_insertions |-> a.total_insertions,
     total_deletions |-> a.total_deletions,
     net_lines |-> a.total_insertions - a.total_deletions,
     total_files_changed |-> a.total_files_changed,
     repositories |-> a.repositories,
     top_file_types |-> MostCommon(a.file_types, 5),
     recent_commit_messages |->
         SubSeq(a.commit_messages,
                IF Len(a.commit_messages) > 10 THEN Len(a.commit_messages) - 9 ELSE 1,
                Len(a.commit_messages)),
     first_commit_date |-> IF a.first_commit_date # None
                           THEN <<IsoFormat(a.first_commit_date[1])>> ELSE None,
     last_commit_date |-> IF a.last_commit_date # None
                          THEN <<IsoFormat(a.last_commit_date[1])>> ELSE None,
     active_days |-> CalculateActiveDays(a)]

\* AuthorStats.to_dict
AuthorToDict(a) ==
    [name |-> a.name,
     email |-> a.email,
     total_commits |-> a.total_commits,
     total_insertions |-> a.total_insertions,
     total_deletions |-> a.total_deletions,
     net_lines |-> a.total_insertions - a.total_deletions,
     total_files_changed |-> a.total_files_changed,
     repositories |-> a.repositories,
     top_file_types |-> MostCommon(a.file_types, 5),
     recent_commit_messages |-> Take(a.commit_messages, 10),
     first_commit_date |-> IF a.first_commit_date # None
                           THEN <<IsoFormat(a.first_commit_date[1])>> ELSE None,
     last_commit_date |-> IF a.last_commit_date # None
                          THEN <<IsoFormat(a.last_commit_date[1])>> ELSE None,
     active_days |-> CalculateActiveDays(a)]

\* RepositoryStats.to_dict
RepoToDict(r) ==
    [name |-> r.name,
     path |-> r.path,
     total_commits |-> r.total_commits,
     unique_authors |-> Cardinality(r.unique_authors),
     total_insertions |-> r.total_insertions,
     total_deletions |-> r.total_deletions,
     net_lines |-> r.total_insertions - r.total_deletions,
     total_files_changed |-> Cardinality(r.total_files_changed),
     top_file_types |-> MostCommon(r.file_types, 10),
     recent_commits |-> Take(r.commit_timeline, 20)]

\* TransformedData._generate_summary
GenerateSummary(repo_stats, authors) ==
    LET total_commits == SumOver(repo_stats, "total_commits")
    IN  [total_commits |-> total_commits,
         total_authors |-> Len(authors),
         total_repositories |-> Len(repo_stats),
         avg_commits_per_author |->
             IF Len(authors) > 0 THEN Ratio(total_commits, Len(authors)) ELSE Ratio(0, 1),
         avg_commits_per_repo |->
             IF Len(repo_stats) > 0 THEN Ratio(total_commits, Len(repo_stats))
             ELSE Ratio(0, 1)]

\* TransformedData.to_dict
ToDict(overall, repo_stats, authors, window) ==
    [overall_stats |-> overall,
     repository_stats |-> [i \in 1..Len(repo_stats) |-> RepoToDict(repo_stats[i])],
     author_stats |-> [i \in 1..Len(authors) |-> AuthorToDict(authors[i])],
     time_window |-> window,
     summary |-> GenerateSummary(repo_stats, authors)]

\* lines 162-169: one "###" block per repository of repo_stats[:5]
RECURSIVE RepositorySummary(_)
RepositorySummary(repos) ==
    IF repos = <<>> THEN <<>>
    ELSE << "\n### ", Head(repos).name,
            "\n- Commits: ", Str(Head(repos).total_commits),
            "\n- Contributors: ", Str(Head(repos).unique_authors),
            "\n- Files Changed: ", Str(Head(repos).total_files_changed),
            "\n- Net Lines: ", WithCommas(Head(repos).net_lines), "\n" >>
         \o RepositorySummary(Tail(repos))

\* lines 174-181: one numbered block per author of author_stats[:5], from i
RECURSIVE TopContributors(_, _)
TopContributors(authors, i) ==
    IF authors = <<>> THEN <<>>
    ELSE << "\n", Str(i), ". **", Head(authors).name, "**",
            "\n   - Commits: ", Str(Head(authors).total_commits),
            "\n   - Lines Added: ", WithCommas(Head(authors).total_insertions),
            "\n   - Lines Removed: ", WithCommas(Head(authors).total_deletions),
            "\n   - Files Changed: ", Str(Head(authors).total_files_changed), "\n" >>
         \o TopContributors(Tail(authors), i + 1)

\* LLMReportGenerator._generate_fallback_report
GenerateFallbackReport(data) ==
    << "# Git Repository Analysis Report\n        \n## Executive Summary\nAnalysis of ",
       Str(data.summary.total_repositories), " repositories from ",
       data.time_window.start_date, " to ", data.time_window.end_date,
       ".\n\n## Overall Activity\n- **Total Commits**: ",
       Str(data.overall_stats.total_commits),
       "\n- **Total Contributors**: ", Str(data.summary.total_authors),
       "\n- **Total Repositories**: ", Str(data.summary.total_repositories),
       "\n- **Lines Added**: ", WithCommas(data.overall_stats.total_insertions),
       "\n- **Lines Removed**: ", WithCommas(data.overall_stats.total_deletions),
       "\n- **Net Lines Changed**: ", WithCommas(data.overall_stats.net_lines),
       "\n\n## Repository Summary\n" >>
    \o RepositorySummary(Take(data.repository_stats, 5))
    \o << "\n## Top Contributors\n" >>
    \o TopContributors(Take(data.author_stats, 5), 1)
    \o << "\n---\n*Report generated by Git Sniff Otter*" >>

\* what self.client.chat.completions.create can do: raise, answer without
\* choices, or answer with a content that is None or a text
LLMOutcomes ==
    { [kind |-> "raise", content |-> <<>>],
      [kind |-> "no_choices", content |-> <<>>],
      [kind |-> "content_none", content |-> <<>>],
      [kind |-> "content", content |-> <<>>],
      [kind |-> "content", content |-> <<" ", "\n">>],
      [kind |-> "content", content |-> <<" ", "o", "k", "\n">>] }

\* lines 70-76: the text returned for one outcome of the call
ReportFor(outcome, data) ==
    IF outcome.kind \in {"raise", "no_choices"}
    THEN GenerateFallbackReport(data)
    ELSE IF outcome.kind = "content" /\ outcome.content # <<>>
         THEN Strip(outcome.content)
         ELSE << "No response from LLM" >>

\* LLMReportGenerator.generate_report
GenerateReport ==
    /\ tpc = "done"
    /\ \E outcome \in LLMOutcomes :
         generated' = [outcome |-> outcome,
                       text |-> ReportFor(outcome,
                                    ToDict(overall_stats, repository_stats,
                                           author_stats, time_window))]
    /\ tpc' = "reported"
    /\ UNCHANGED <<repository_data_list, fold_pos, repository_stats, author_map,
                   author_stats, start_date, end_date, time_window, overall_stats>>
    /\ UNCHANGED <<document, fallback_texts>>
    /\ UNCHANGED slackVars
    /\ UNCHANGED stageVars

\* _generate_fallback_report that empties the repository list of the document
\* it was handed
FallbackInvocationConsumesRepositories(data, earlier) ==
    [text |-> GenerateFallbackReport(data),
     data |-> [data EXCEPT !.repository_stats = << >>]]

\* one invocation of _generate_fallback_report(data) after the invocations
\* that returned the texts earlier: the text it returns and the document as
\* the caller holds it afterwards.  The method reads data only (dict.get and
\* slices), assigns to its local report only, and reads no attribute of self.
FallbackInvocation(data, earlier) ==
    [text |-> GenerateFallbackReport(data), data |-> data]

\* a direct call of _generate_fallback_report: the first on the document
\* to_dict() returns, each later one on the same document object
FallbackReportCall ==
    /\ tpc \in {"done", "reported"}
    /\ Len(fallback_texts) < MaxFallbackCalls
    /\ LET data == IF document = None
                   THEN ToDict(overall_stats, repository_stats, author_stats, time_window)
                   ELSE document[1]
           r    == FallbackInvocation(data, fallback_texts)
       IN  /\ fallback_texts' = Append(fallback_texts, r.text)
           /\ document' = << r.data >>
    /\ UNCHANGED <<repository_data_list, tpc, fold_pos, repository_stats, author_map,
                   author_stats, start_date, end_date, time_window, overall_stats,
                   generated>>
    /\ UNCHANGED slackVars
    /\ UNCHANGED stageVars

(***************************************************************************)
(* Config (a pydantic model) and load_config.  An Optional[str] is None or  *)
(* the tuple <<v>> of a string v; a repository path is given by what it is  *)
(* on disk: "repo" (a directory with .git), "dir" (a directory without) or  *)
(* "missing".                                                               *)
(***************************************************************************)
OptionalStrings == { None, <<"">>, <<"v">> }
PathKinds == {"repo", "dir", "missing"}
PathLists == UNION { [1..n -> PathKinds] : n \in 0..MaxRepos }

EitherSlack == "Either slack_token or slack_webhook_url must be provided"

\* the truth value of an Optional[str]: None and "" are false
Truthy(v) == v # None /\ v[1] # ""

\* validate_repository_paths: the ValueError of the first path that fails
RECURSIVE ValidateRepositoryPaths(_)
ValidateRepositoryPaths(v) ==
    IF v = << >> THEN {}
    ELSE IF Head(v) = "missing" THEN {"Repository path does not exist"}
    ELSE IF Head(v) = "dir" THEN {"Path is not a git repository"}
    ELSE ValidateRepositoryPaths(Tail(v))

\* the errors of the fields on their own: openai_api_key is a required str,
\* repository_paths has the field validator
FieldErrors(kw) ==
    (IF kw.openai_api_key = None THEN {"openai_api_key: Input should be a valid string"}
     ELSE {})
    \cup ValidateRepositoryPaths(kw.repository_paths)

\* validate_slack_config accepting a token or webhook that is set to ""
ValidateSlackConfigOnlyNone(kw) ==
    IF kw.slack_token = None /\ kw.slack_webhook_url = None THEN {EitherSlack} ELSE {}

\* validate_slack_config, the model validator (mode="after")
ValidateSlackConfig(kw) ==
    IF ~Truthy(kw.slack_token) /\ ~Truthy(kw.slack_webhook_url) THEN {EitherSlack} ELSE {}

\* Config(**kw): pydantic validates the fields, and runs the "after" model
\* validator only on a model whose fields are all valid; any error raises a
\* ValidationError that carries the messages
Config(kw) ==
    LET errors == IF FieldErrors(kw) # {} THEN FieldErrors(kw) ELSE ValidateSlackConfig(kw)
    IN  [raised |-> errors # {}, errors |-> errors,
         config |-> IF errors = {} THEN << kw >> ELSE None]

\* a direct construction of Config, as the tests do
ConstructConfig ==
    /\ apc = "construct"
    /\ constructed' = << Config(config_args) >>
    /\ apc' = "constructed"
    /\ UNCHANGED <<env, cli_repos, dry_run, save_report, config_args, app_config, invoked,
                   returned, exit_status>>
    /\ UNCHANGED <<slackVars, transformVars, collectVars>>

(***************************************************************************)
(* The analyze command of the click group cli, one stage per step.  Every  *)
(* exception raised inside its try block is caught at line 181 and makes   *)
(* it return 1.                                                            *)
(***************************************************************************)
\* os.getenv(name, default)
Getenv(e, name, default) == IF e[name] = None THEN default ELSE e[name]

\* the texts generate_report can return: stripped and not empty
AnalyzeReports ==
    { r \in TextsUpTo(MaxAnalyzeReportLen) : r # << >> /\ Strip(r) = r }

\* --repos is a required option: without it click reports a usage error and
\* exits with status 2 before analyze is called
ClickUsageError ==
    /\ apc = "start"
    /\ cli_repos = << >>
    /\ exit_status' = << 2 >>
    /\ apc' = "exited"
    /\ UNCHANGED <<env, cli_repos, dry_run, save_report, config_args, constructed,
                   app_config, invoked, returned>>
    /\ UNCHANGED <<slackVars, transformVars, collectVars>>

\* lines 96-112: load_config (int() of TIME_WINDOW_DAYS, then Config with
\* repository_paths=[]), and the overrides from the command line
LoadConfig ==
    /\ apc = "start"
    /\ cli_repos # << >>
    /\ invoked' = Append(invoked, "load_config")
    /\ IF Getenv(env, "TIME_WINDOW_DAYS", <<"7">>) = <<"x">>
       THEN /\ returned' = << 1 >>
            /\ apc' = "returned"
            /\ UNCHANGED <<config_args, constructed, app_config>>
       ELSE LET kw == [openai_api_key |-> Getenv(env, "OPENAI_API_KEY", <<"">>),
                       slack_token |-> Getenv(env, "SLACK_TOKEN", None),
                       slack_webhook_url |-> Getenv(env, "SLACK_WEBHOOK_URL", None),
                       repository_paths |-> << >>]
                c  == Config(kw)
            IN  /\ config_args' = kw
                /\ constructed' = << c >>
                /\ IF c.raised
                   THEN /\ returned' = << 1 >>
                        /\ apc' = "returned"
                        /\ app_config' = app_config
                   ELSE /\ app_config' = << [c.config[1] EXCEPT
                                                !.repository_paths = cli_repos] >>
                        /\ apc' = "validate"
                        /\ returned' = returned
    /\ UNCHANGED <<env, cli_repos, dry_run, save_report, exit_status>>
    /\ UNCHANGED <<slackVars, transformVars, collectVars>>

\* line 115 and _validate_repositories: a ClickException for the first path
\* that does not exist or is not a Git repository
ValidateRepositories ==
    /\ apc = "validate"
    /\ invoked' = Append(invoked, "_validate_repositories")
    /\ IF \E i \in 1..Len(cli_repos) : cli_repos[i] # "repo"
       THEN returned' = << 1 >> /\ apc' = "returned"
       ELSE returned' = returned /\ apc' = "collect"
    /\ UNCHANGED <<env, cli_repos, dry_run, save_report, config_args, constructed,
                   app_config, exit_status>>
    /\ UNCHANGED <<slackVars, transformVars, collectVars>>

\* lines 126-129
CollectAllData ==
    /\ apc = "collect"
    /\ invoked' = Append(invoked, "collect_all_data")
    /\ apc' = "transform"
    /\ UNCHANGED <<env, cli_repos, dry_run, save_report, config_args, constructed,
                   app_config, returned, exit_status>>
    /\ UNCHANGED <<slackVars, transformVars, collectVars>>

\* lines 132-137
Transform ==
    /\ apc = "transform"
    /\ invoked' = Append(invoked, "transform")
    /\ apc' = "generate"
    /\ UNCHANGED <<env, cli_repos, dry_run, save_report, config_args, constructed,
                   app_config, returned, exit_status>>
    /\ UNCHANGED <<slackVars, transformVars, collectVars>>

\* lines 140-143: generate_report returns a text whatever the model call did
AnalyzeGenerate ==
    /\ apc = "generate"
    /\ invoked' = Append(invoked, "generate_report")
    /\ report' \in AnalyzeReports
    /\ apc' = "output"
    /\ UNCHANGED <<env, cli_repos, dry_run, save_report, config_args, constructed,
                   app_config, returned, exit_status>>
    /\ UNCHANGED <<call, title, max_length, pc, lines, idx, sections, current_section,
                   posted, attempts, result>>
    /\ UNCHANGED <<transformVars, collectVars>>

\* lines 146-176: the report is saved when asked (open or write can raise),
\* then, unless --dry-run, SlackSender(app_config).send_report(report) is
\* called with the default title
AnalyzeOutput ==
    /\ apc = "output"
    /\ \E saved \in (IF save_report THEN BOOLEAN ELSE {TRUE}) :
         IF ~saved
         THEN /\ returned' = << 1 >>
              /\ apc' = "returned"
              /\ UNCHANGED <<invoked, call, title, max_length, pc>>
         ELSE IF dry_run
         THEN /\ returned' = << 0 >>
              /\ apc' = "returned"
              /\ UNCHANGED <<invoked, call, title, max_length, pc>>
         ELSE /\ invoked' = Append(invoked, "send_report")
              /\ call' = IF Truthy(app_config[1].slack_token) THEN "bot"
                         ELSE IF Truthy(app_config[1].slack_webhook_url) THEN "webhook"
                         ELSE "none"
              /\ title' = <<"T">>
              /\ max_length' \in Ceilings
              /\ pc' = "send"
              /\ apc' = "sending"
              /\ returned' = returned
    /\ UNCHANGED <<env, cli_repos, dry_run, save_report, config_args, constructed,
                   app_config, exit_status>>
    /\ UNCHANGED <<report, lines, idx, sections, current_section, posted, attempts, result>>
    /\ UNCHANGED <<transformVars, collectVars>>

\* lines 161-179: send_report has returned
AnalyzeAfterSend ==
    /\ apc = "sending"
    /\ pc = "done"
    /\ returned' = IF result = "True" THEN << 0 >> ELSE << 1 >>
    /\ apc' = "returned"
    /\ UNCHANGED <<env, cli_repos, dry_run, save_report, config_args, constructed,
                   app_config, invoked, exit_status>>
    /\ UNCHANGED <<slackVars, transformVars, collectVars>>

\* sys.exit(cli()): cli is a click group called in standalone mode, where
\* click drops the value the command function returned and ends the process
\* through ctx.exit(), that is with status 0; sys.exit never gets a value
ExitStatus(rv) == 0

ClickExit ==
    /\ apc = "returned"
    /\ exit_status' = << ExitStatus(returned[1]) >>
    /\ apc' = "exited"
    /\ UNCHANGED <<env, cli_repos, dry_run, save_report, config_args, constructed,
                   app_config, invoked, returned>>
    /\ UNCHANGED <<slackVars, transformVars, collectVars>>

(***************************************************************************)
(* DataCollector.  The statistics tool (gitinspector, run by                *)
(* subprocess.run with check=True) and the commit query (GitPython) are the *)
(* environment: each answers in one of the ways listed.                     *)
(***************************************************************************)
\* the answers to the invocation with --format=json: exit status 0 and JSON on
\* stdout, exit status 0 and something else on stdout, another exit status
\* (CalledProcessError), or no process at all (FileNotFoundError and the
\* other OSErrors of subprocess.run)
JsonOutcomes == {"json", "not_json", "exit_nonzero", "not_started"}

\* the answers to the invocation without --format
TextOutcomes == {"text", "exit_nonzero", "not_started"}

\* a repository path, and os.path.basename of it
PathOf(i) == <<"/", "s", "/", "r", ToString(i)>>

Basename(path) ==
    LET slashes == { i \in 1..Len(path) : path[i] = "/" }
    IN  IF slashes = {} THEN path
        ELSE LET last == CHOOSE i \in slashes : \A j \in slashes : j <= i
             IN  SubSeq(path, last + 1, Len(path))

\* the path lists of the configuration: paths 1..n in either order
ConfigPaths ==
    UNION { { [i \in 1..n |-> PathOf(i)], [i \in 1..n |-> PathOf(n + 1 - i)] } :
            n \in 0..MaxRepos }

\* the commits a repository can hold, in the order iter_commits yields them
OldCommit == CommitData("a", "c", CHOOSE c \in Changes : c.date = 0)
NewCommit == CommitData("a", "c", CHOOSE c \in Changes : c.date = 3)
Histories == { << >>, << OldCommit >>, << OldCommit, NewCommit >>, << NewCommit, OldCommit >> }

\* what the commit query does on a repository that holds available: Repo()
\* raises, CommitData() raises on some commit, iter_commits raises
\* GitCommandError after it yielded some commits, or all commits are read
QueryOutcomes(available) ==
    { [kind |-> "repo_error", after |-> 0], [kind |-> "commit_error", after |-> 0],
      [kind |-> "complete", after |-> Len(available)] }
    \cup { [kind |-> "git_error", after |-> k] : k \in 0..Len(available) }

\* the dict json.loads gives for the output of the tool
ParsedJson ==
    [authors |-> <<"a">>, file_types |-> <<"py">>, timeline |-> <<"w1">>]

\* lines 194-199 and 205-210: the minimal structure around the raw output
EmptyStructure(stdout) ==
    [authors |-> << >>, file_types |-> << >>, timeline |-> << >>, raw_text |-> stdout]

\* GitInspectorData.__init__
GitInspectorData(raw_output, json_output) ==
    [raw_output |-> raw_output, json_output |-> json_output]

\* RepositoryData.__init__ with the fields the collector fills
NewRepositoryData(path, name) ==
    [path |-> path, name |-> name, gitinspector_data |-> None, commits |-> << >>]

\* _run_gitinspector without the except clause of CalledProcessError
RunGitinspectorNoRetry(first, second) ==
    LET json_run == [format |-> "json", outcome |-> first]
    IN  IF first = "json"
        THEN [raised |-> FALSE, runs |-> << json_run >>,
              data |-> << GitInspectorData("{}", ParsedJson) >>]
        ELSE IF first = "not_json"
        THEN [raised |-> FALSE, runs |-> << json_run >>,
              data |-> << GitInspectorData("?", EmptyStructure("?")) >>]
        ELSE [raised |-> TRUE, runs |-> << json_run >>, data |-> None]

\* _run_gitinspector on a tool that answers first to the JSON invocation and
\* second to the text invocation: whether it raised, the invocations it made,
\* and the GitInspectorData it returned.  Only CalledProcessError leads to
\* the text invocation, whose own errors leave the method.
RunGitinspector(first, second) ==
    LET json_run == [format |-> "json", outcome |-> first]
        text_run == [format |-> "text", outcome |-> second]
    IN  IF first = "json"
        THEN [raised |-> FALSE, runs |-> << json_run >>,
              data |-> << GitInspectorData("{}", ParsedJson) >>]
        ELSE IF first = "not_json"
        THEN [raised |-> FALSE, runs |-> << json_run >>,
              data |-> << GitInspectorData("?", EmptyStructure("?")) >>]
        ELSE IF first = "not_started"
        THEN [raised |-> TRUE, runs |-> << json_run >>, data |-> None]
        ELSE IF second = "text"
        THEN [raised |-> FALSE, runs |-> << json_run, text_run >>,
              data |-> << GitInspectorData("txt", EmptyStructure("txt")) >>]
        ELSE [raised |-> TRUE, runs |-> << json_run, text_run >>, data |-> None]

\* lines 144-148: an exception of _run_gitinspector leaves gitinspector_data
\* None
GitinspectorOrNone(run) ==
    [raised |-> FALSE, data |-> IF run.raised THEN None ELSE run.data]

\* commits.sort(key=lambda c: c.date, reverse=True)
SortByDateDesc(commits) ==
    LET sorted == SortedDescending([i \in 1..Len(commits) |->
                                      [sort_key |-> commits[i].date, item |-> commits[i]]])
    IN  [i \in 1..Len(sorted) |-> sorted[i].item]

\* _collect_commits: whether it raised, and the list it returned
CollectCommits(available, outcome) ==
    IF outcome.kind \in {"repo_error", "commit_error"}
    THEN [raised |-> TRUE, commits |-> << >>]
    ELSE [raised |-> FALSE, commits |-> SortByDateDesc(SubSeq(available, 1, outcome.after))]

\* lines 150-154 without the try: the exception leaves the method
CommitsOrRaise(query) == query

\* lines 150-154: an exception of _collect_commits leaves commits empty
CommitsOrEmpty(query) ==
    IF query.raised THEN [raised |-> FALSE, commits |-> << >>] ELSE query

\* RepositoryData.to_dict()["gitinspector_data"]
GitinspectorDict(repo_data) ==
    IF repo_data.gitinspector_data # None
    THEN [authors |-> repo_data.gitinspector_data[1].json_output.authors,
          file_types |-> repo_data.gitinspector_data[1].json_output.file_types,
          timeline |-> repo_data.gitinspector_data[1].json_output.timeline]
    ELSE [authors |-> << >>, file_types |-> << >>, timeline |-> << >>]

\* lines 132-136: one iteration of the loop of collect_all_data, that is one
\* call of _collect_repository_data; an exception that leaves it ends
\* collect_all_data
CollectRepositoryData ==
    /\ cpc = "collect"
    /\ cidx <= Len(config_paths)
    /\ \E first \in JsonOutcomes, second \in TextOutcomes, available \in Histories :
         \E outcome \in QueryOutcomes(available) :
            LET path      == config_paths[cidx]
                run       == RunGitinspector(first, second)
                inspected == GitinspectorOrNone(run)
                query     == CommitsOrEmpty(CollectCommits(available, outcome))
                repo_data == [NewRepositoryData(path, Basename(path)) EXCEPT
                                 !.gitinspector_data = inspected.data,
                                 !.commits = query.commits]
            IN  /\ tool_runs' = run.runs
                /\ last_query' = << [available |-> available, outcome |-> outcome] >>
                /\ IF inspected.raised \/ query.raised
                   THEN /\ cpc' = "raised"
                        /\ UNCHANGED <<all_repo_data, cidx>>
                   ELSE /\ all_repo_data' = Append(all_repo_data, repo_data)
                        /\ cidx' = cidx + 1
                        /\ cpc' = cpc
    /\ UNCHANGED config_paths
    /\ UNCHANGED <<slackVars, transformVars, cliVars>>

\* line 138: return all_repo_data
CollectReturn ==
    /\ cpc = "collect"
    /\ cidx > Len(config_paths)
    /\ cpc' = "returned"
    /\ UNCHANGED <<config_paths, cidx, all_repo_data, tool_runs, last_query>>
    /\ UNCHANGED <<slackVars, transformVars, cliVars>>

CollectIdle ==
    /\ config_paths = << >>
    /\ cpc = "idle"
    /\ cidx = 1
    /\ all_repo_data = << >>
    /\ tool_runs = << >>
    /\ last_query = None

StageIdle ==
    /\ env = None
    /\ cli_repos = << >>
    /\ dry_run = FALSE
    /\ save_report = FALSE
    /\ apc = "idle"
    /\ config_args = None
    /\ constructed = None
    /\ app_config = None
    /\ invoked = << >>
    /\ returned = None
    /\ exit_status = None
    /\ CollectIdle

TransformIdle ==
    /\ repository_data_list = <<>>
    /\ tpc = "idle"
    /\ fold_pos = 1
    /\ repository_stats = <<>>
    /\ author_map = <<>>
    /\ author_stats = <<>>
    /\ start_date = 0
    /\ end_date = 0
    /\ time_window = None
    /\ overall_stats = None
    /\ generated = None
    /\ document = None
    /\ fallback_texts = << >>

SlackIdle ==
    /\ call = "idle"
    /\ report = <<>>
    /\ title = <<>>
    /\ max_length = 0
    /\ pc = "idle"
    /\ lines = <<>>
    /\ idx = 1
    /\ sections = <<>>
    /\ current_section = <<>>
    /\ posted = <<>>
    /\ attempts = <<>>
    /\ result = "running"

\* the inputs: up to MaxRepos repositories holding the commits of one of the
\* sequences seqs, and an analysis window
InitInputs(seqs, windows) ==
    /\ SlackIdle
    /\ StageIdle
    /\ \E flat \in seqs, r \in 0..MaxRepos :
         \E cut \in [0..r -> 0..Len(flat)] :
            /\ cut[0] = 0
            /\ cut[r] = Len(flat)
            /\ \A i \in 1..r : cut[i - 1] <= cut[i]
            /\ repository_data_list =
                   [i \in 1..r |-> RepositoryData(i, SubSeq(flat, cut[i - 1] + 1, cut[i]))]
    /\ \E w \in windows : start_date = w.start /\ end_date = w.end
    /\ tpc = "repos"
    /\ fold_pos = 1
    /\ repository_stats = <<>>
    /\ author_map = <<>>
    /\ author_stats = <<>>
    /\ time_window = None
    /\ overall_stats = None
    /\ generated = None
    /\ document = None
    /\ fallback_texts = << >>

\* the same, the commits drawn from Commits, at most maxCommits of them
InitTransform(maxCommits, windows) ==
    InitInputs({ f \in CommitSeqs : Len(f) <= maxCommits }, windows)

Init == InitTransform(MaxCommits, {SevenDays})

Next ==
    \/ TransformRepositories
    \/ NewAuthor
    \/ FoldCommit
    \/ FinishTransform

Spec == Init /\ [][Next]_vars

\* the aggregation followed by the report generation
InitLLM == InitTransform(MaxDocCommits, Windows)

NextLLM ==
    \/ TransformRepositories
    \/ NewAuthor
    \/ FoldCommit
    \/ FinishTransform
    \/ GenerateReport

SpecLLM == InitLLM /\ [][NextLLM]_vars

\* the aggregation of the inputs of the end-to-end scenario
InitScenario == InitInputs(ScenarioSeqs, {SevenDays})

SpecScenario == InitScenario /\ [][Next]_vars

\* the aggregation followed by generate_report and by direct calls of
\* _generate_fallback_report, in any order
InitFallback == InitTransform(MaxDocCommits, {SevenDays})

NextFallback ==
    \/ TransformRepositories
    \/ NewAuthor
    \/ FoldCommit
    \/ FinishTransform
    \/ GenerateReport
    \/ FallbackReportCall

SpecFallback == InitFallback /\ [][NextFallback]_vars

InitSlack ==
    /\ call \in {"split", "bot", "webhook", "none"}
    /\ report \in Reports
    /\ title \in (IF call \in {"bot", "webhook"} THEN Titles ELSE { <<>> })
    /\ max_length \in Ceilings
    /\ pc = IF call = "split" THEN "split" ELSE "send"
    /\ lines = IF call = "split" THEN SplitLines(report) ELSE <<>>
    /\ idx = 1
    /\ sections = <<>>
    /\ current_section = <<>>
    /\ posted = <<>>
    /\ attempts = <<>>
    /\ result = "running"
    /\ TransformIdle
    /\ StageIdle

NextSlack ==
    \/ SplitLine
    \/ SplitFinish
    \/ BotSingle
    \/ BotTitle
    \/ PostSection
    \/ PostDone
    \/ SendWebhook
    \/ SendNoConfig

SpecSlack == InitSlack /\ [][NextSlack]_vars

\* the analyze command, from the command line to the exit of the process
InitAnalyze ==
    /\ SlackIdle
    /\ TransformIdle
    /\ env \in [OPENAI_API_KEY : {None, <<"v">>}, SLACK_TOKEN : OptionalStrings,
                SLACK_WEBHOOK_URL : {None, <<"v">>}, TIME_WINDOW_DAYS : {None, <<"x">>}]
    /\ cli_repos \in PathLists
    /\ dry_run \in BOOLEAN
    /\ save_report \in BOOLEAN
    /\ apc = "start"
    /\ config_args = None
    /\ constructed = None
    /\ app_config = None
    /\ invoked = << >>
    /\ returned = None
    /\ exit_status = None
    /\ CollectIdle

NextAnalyze ==
    \/ ClickUsageError
    \/ LoadConfig
    \/ ValidateRepositories
    \/ CollectAllData
    \/ Transform
    \/ AnalyzeGenerate
    \/ AnalyzeOutput
    \/ BotSingle
    \/ BotTitle
    \/ SplitLine
    \/ SplitFinish
    \/ PostSection
    \/ PostDone
    \/ SendWebhook
    \/ AnalyzeAfterSend
    \/ ClickExit

SpecAnalyze == InitAnalyze /\ [][NextAnalyze]_vars

\* collect_all_data on the repositories of the configuration
InitCollect ==
    /\ SlackIdle
    /\ TransformIdle
    /\ env = None
    /\ cli_repos = << >>
    /\ dry_run = FALSE
    /\ save_report = FALSE
    /\ apc = "idle"
    /\ config_args = None
    /\ constructed = None
    /\ app_config = None
    /\ invoked = << >>
    /\ returned = None
    /\ exit_status = None
    /\ config_paths \in ConfigPaths
    /\ cpc = "collect"
    /\ cidx = 1
    /\ all_repo_data = << >>
    /\ tool_runs = << >>
    /\ last_query = None

NextCollect ==
    \/ CollectRepositoryData
    \/ CollectReturn

SpecCollect == InitCollect /\ [][NextCollect]_vars

\* Config constructed directly with any credentials and repository paths
InitConfig ==
    /\ SlackIdle
    /\ TransformIdle
    /\ config_args \in [openai_api_key : OptionalStrings, slack_token : OptionalStrings,
                        slack_webhook_url : OptionalStrings, repository_paths : PathLists]
    /\ apc = "construct"
    /\ constructed = None
    /\ env = None
    /\ cli_repos = << >>
    /\ dry_run = FALSE
    /\ save_report = FALSE
    /\ app_config = None
    /\ invoked = << >>
    /\ returned = None
    /\ exit_status = None
    /\ CollectIdle

NextConfig == ConstructConfig

SpecConfig == InitConfig /\ [][NextConfig]_vars

(***************************************************************************)
(* Inputs that reach the cut-offs of the aggregation: more than 10 commits *)
(* of one author, more than 20 commits in one repository, messages of more *)
(* than 100 characters, more than 10 file extensions.                      *)
(***************************************************************************)
Digits == <<"0", "1", "2", "3", "4", "5", "6", "7", "8", "9">>

Letters == <<"a", "b", "c", "d", "e", "f", "g", "h", "i", "j", "k", "l", "n", "o">>

\* a text of n characters
Pad(n) == [k \in 1..n |-> "x"]

\* the message of the i-th commit: "m" and the two digits of i, alone, or
\* padded to one character less than the longest message, or to the longest
LongMessage(i) ==
    <<"m", Digits[(i \div 10) + 1], Digits[(i % 10) + 1]>>
    \o Pad(CASE i % 3 = 1 -> 0
             [] i % 3 = 2 -> MaxMessageLen - 4
             [] OTHER     -> MaxMessageLen - 3)

\* the path f.<letter>, one letter per extension
PathWithExtension(k) == <<"f", ".", Letters[k]>>

\* the i-th commit of a long history: its own message, a date that falls by
\* half a day per commit, the file of one of the extensions and a shared file
LongChange(i) ==
    [date |-> MaxLongCommits + 1 - i,
     message |-> LongMessage(i),
     files_changed |-> <<PathWithExtension(((i - 1) % MaxExtensions) + 1), APy>>,
     insertions |-> i, deletions |-> 2]

\* who wrote the i-th commit: one author throughout, two authors with one
\* display name in turn, or the three authors in turn
AuthorPatterns == {"one", "two", "three"}

AuthorOf(pattern, i) ==
    CASE pattern = "one"   -> <<"a", "c">>
      [] pattern = "two"   -> IF i % 2 = 1 THEN <<"a", "c">> ELSE <<"a", "b:c">>
      [] OTHER             -> CASE i % 3 = 1 -> <<"a", "c">>
                                [] i % 3 = 2 -> <<"a:b", "c">>
                                [] OTHER     -> <<"a", "b:c">>

\* a history of n commits
LongHistory(pattern, n) ==
    [i \in 1..n |-> CommitData(AuthorOf(pattern, i)[1], AuthorOf(pattern, i)[2],
                               LongChange(i))]

\* the history in one repository, or cut in two after `cut` commits
LongInput(history, cut) ==
    IF cut = Len(history) + 1
    THEN << RepositoryData(1, history) >>
    ELSE << RepositoryData(1, SubSeq(history, 1, cut)),
            RepositoryData(2, SubSeq(history, cut + 1, Len(history))) >>

InitCaps ==
    /\ SlackIdle
    /\ StageIdle
    /\ \E n \in 0..MaxLongCommits, pattern \in AuthorPatterns :
         \E cut \in {0, n \div 2, n + 1} :
            repository_data_list = LongInput(LongHistory(pattern, n), cut)
    /\ start_date = SevenDays.start
    /\ end_date = SevenDays.end
    /\ tpc = "repos"
    /\ fold_pos = 1
    /\ repository_stats = <<>>
    /\ author_map = <<>>
    /\ author_stats = <<>>
    /\ time_window = None
    /\ overall_stats = None
    /\ generated = None
    /\ document = None
    /\ fallback_texts = << >>

SpecCaps == InitCaps /\ [][Next]_vars

(***************************************************************************)
(* The properties.                                                         *)
(***************************************************************************)
\* _split_report_by_sections has returned
SplitReturned == pc = "post" \/ (pc = "done" /\ call = "split")

\* the lines of the chunks, in chunk order
RECURSIVE ChunkLines(_)
ChunkLines(chunks) ==
    IF chunks = <<>> THEN <<>>
    ELSE SplitLines(Head(chunks)) \o ChunkLines(Tail(chunks))

\* the lines without their outer whitespace, the blank ones left out
RECURSIVE TrimmedNonBlank(_)
TrimmedNonBlank(ls) ==
    IF ls = <<>> THEN <<>>
    ELSE (IF Strip(Head(ls)) = <<>> THEN <<>> ELSE << Strip(Head(ls)) >>)
         \o TrimmedNonBlank(Tail(ls))

\* C1: every chunk _split_report_by_sections has completed is at most
\* max_length long, for every report and every ceiling.
C1_ChunksWithinCeiling ==
    \A i \in 1..Len(sections) : Len(sections[i]) <= max_length

\* C2: the lines of the returned chunks, concatenated in chunk order, are
\* exactly report.split("\n").
C2_LineSequenceReproduced ==
    SplitReturned => ChunkLines(sections) = SplitLines(report)

\* C2 (amended): the lines of the returned chunks reproduce the lines of the
\* report up to whitespace: once every line has lost its leading and trailing
\* whitespace and the lines left empty are discarded, the two sequences are
\* equal, so no non-blank line is dropped, split, duplicated or reordered.
C2_NonBlankLinesReproduced ==
    SplitReturned =>
        TrimmedNonBlank(ChunkLines(sections)) = TrimmedNonBlank(SplitLines(report))

\* C2 witness: a split into several chunks that lost a blank line or outer
\* whitespace of a line.
C2_Witness ==
    /\ SplitReturned
    /\ Len(sections) >= 2
    /\ ChunkLines(sections) # SplitLines(report)

\* C3: every text handed to chat_postMessage or to the webhook is at most the
\* ceiling long.
C3_MessagesWithinCeiling ==
    \A i \in 1..Len(attempts) : Len(attempts[i]) <= max_length

\* the model call failed: it raised, answered without choices, or answered
\* with a content that is None or empty
LLMFailed(outcome) ==
    \/ outcome.kind \in {"raise", "no_choices", "content_none"}
    \/ outcome.kind = "content" /\ outcome.content = <<>>

\* C4: whenever the model call fails in any way (an error, no choices, a
\* content that is None or empty), generate_report returns the fallback
\* report of the same document.
C4_FallbackOnEveryFailure ==
    (tpc = "reported" /\ LLMFailed(generated.outcome)) =>
        generated.text = GenerateFallbackReport(
                             ToDict(overall_stats, repository_stats, author_stats,
                                    time_window))

\* the commits the author loop has folded so far, with their repository name
Folded == SubSeq(FoldOrder(repository_data_list), 1, fold_pos - 1)

KeyOf(commit) == AuthorKey(commit.author_name, commit.author_email)

\* the positions of the folded commits that went to the aggregate of a key
FoldedAt(folded, key) == { i \in 1..Len(folded) : KeyOf(folded[i].commit) = key }

\* the sum of f[i] over a finite set of positions
RECURSIVE SumOf(_, _)
SumOf(f, positions) ==
    IF positions = {} THEN 0
    ELSE LET i == CHOOSE x \in positions : TRUE
         IN  f[i] + SumOf(f, positions \ {i})

\* C5: transform returns exactly one AuthorStats per distinct
\* (author_name, author_email) pair of the input commits.
C5_OneAggregatePerPair ==
    tpc = "done" =>
        LET folded == Folded
        IN  Len(author_stats) =
                Cardinality({ <<folded[i].commit.author_name, folded[i].commit.author_email>> :
                                i \in 1..Len(folded) })

\* C6: two commits with the same email and different display names are folded
\* into two distinct aggregates, and transform returns at least as many
\* entries as there are display names under one email.
C6_SameEmailDifferentNames ==
    LET folded == Folded
    IN  /\ \A i, j \in 1..Len(folded) :
              (/\ folded[i].commit.author_email = folded[j].commit.author_email
               /\ folded[i].commit.author_name # folded[j].commit.author_name)
              => MapIndex(author_map, KeyOf(folded[i].commit))
                     # MapIndex(author_map, KeyOf(folded[j].commit))
        /\ tpc = "done" =>
              /\ Len(author_stats) = Len(author_map)
              /\ \A e \in AuthorEmails :
                    Len(author_stats) >=
                        Cardinality({ folded[i].commit.author_name :
                                        i \in { x \in 1..Len(folded) :
                                                  folded[x].commit.author_email = e } })

\* C6 witness: the input held one email under two display names.
C6_Witness ==
    /\ tpc = "done"
    /\ \E i, j \in 1..Len(Folded) :
          /\ Folded[i].commit.author_email = Folded[j].commit.author_email
          /\ Folded[i].commit.author_name # Folded[j].commit.author_name

\* C7: after add_commit has folded N commits into an AuthorStats,
\* total_commits is N, total_insertions and total_deletions are the sums over
\* these commits, and every repository name passed is in repositories.
C7_AuthorTotals ==
    LET folded == Folded
        ins    == [i \in 1..Len(folded) |-> folded[i].commit.insertions]
        del    == [i \in 1..Len(folded) |-> folded[i].commit.deletions]
    IN  \A m \in 1..Len(author_map) :
            LET a == author_map[m].stats
                S == FoldedAt(folded, author_map[m].key)
            IN  /\ a.total_commits = Cardinality(S)
                /\ a.total_insertions = SumOf(ins, S)
                /\ a.total_deletions = SumOf(del, S)
                /\ { folded[i].repo_name : i \in S } \subseteq a.repositories

\* C7 witness: an aggregate of three commits from two repositories.
C7_Witness ==
    \E m \in 1..Len(author_map) :
        /\ author_map[m].stats.total_commits = 3
        /\ Cardinality(author_map[m].stats.repositories) = 2
        /\ author_map[m].stats.total_insertions = 5

\* the position of the first input commit of the key of an aggregate
FirstAppearance(order, a) ==
    LET S == { i \in 1..Len(order) : KeyOf(order[i].commit) = AuthorKey(a.name, a.email) }
    IN  CHOOSE i \in S : \A j \in S : i <= j

\* C8: author_stats is ordered by total_commits descending, and authors with
\* equal total_commits keep the order of their first appearance in the input.
C8_SortedDescendingStable ==
    tpc = "done" =>
        LET order == FoldOrder(repository_data_list)
        IN  \A i, j \in 1..Len(author_stats) :
                i < j =>
                    /\ author_stats[i].total_commits >= author_stats[j].total_commits
                    /\ author_stats[i].total_commits = author_stats[j].total_commits
                           => FirstAppearance(order, author_stats[i])
                                  < FirstAppearance(order, author_stats[j])

\* C8 witness: the sort moved an author ahead of an earlier one, and two
\* authors are tied.
C8_Witness ==
    /\ tpc = "done"
    /\ Len(author_stats) >= 2
    /\ author_stats # [i \in 1..Len(author_map) |-> author_map[i].stats]
    /\ \E i, j \in 1..Len(author_stats) :
          i < j /\ author_stats[i].total_commits > author_stats[j].total_commits

\* the lower-cased substring after the last "." of a path that has one
AfterLastDot(file_path) ==
    LET d == CHOOSE i \in 1..Len(file_path) :
                 /\ file_path[i] = "."
                 /\ \A j \in (i + 1)..Len(file_path) : file_path[j] # "."
    IN  [i \in 1..(Len(file_path) - d) |-> Lower(file_path[d + i])]

\* the occurrences <<i, j>> of a changed path that has a ".": file j of the
\* commit at position i, for the positions of a set
DottedOccurrences(commits, positions) ==
    UNION { { <<i, j>> : j \in { x \in 1..Len(commits[i].files_changed) :
                                   "." \in SetOf(commits[i].files_changed[x]) } } :
            i \in positions }

\* a histogram holds, for every key, the number of occurrences of dotted
\* paths whose part after the last "." is the key, and no other key
HistogramOf(counter, commits, positions) ==
    LET occ   == DottedOccurrences(commits, positions)
        extOf == [o \in occ |-> AfterLastDot(commits[o[1]].files_changed[o[2]])]
        exts  == { extOf[o] : o \in occ }
    IN  /\ CounterKeys(counter) = exts
        /\ Cardinality(exts) = Len(counter)
        /\ \A e \in exts :
              CounterGet(counter, e) = Cardinality({ o \in occ : extOf[o] = e })

\* C9: in the repository and the author file-type histograms a path without
\* "." contributes no key, and a path with "." contributes one occurrence to
\* the lower-cased substring after its last "."; counts are per occurrence.
C9_FileTypeHistograms ==
    LET folded  == Folded
        commits == [i \in 1..Len(folded) |-> folded[i].commit]
    IN  /\ \A m \in 1..Len(author_map) :
              HistogramOf(author_map[m].stats.file_types, commits,
                          FoldedAt(folded, author_map[m].key))
        /\ \A r \in 1..Len(repository_stats) :
              HistogramOf(repository_stats[r].file_types, repository_data_list[r].commits,
                          1..Len(repository_data_list[r].commits))

\* C9 witness: an author histogram that counts py twice (a.py and b.PY) and
\* gz once (x.t.GZ), from commits that also changed Makefile.
C9_Witness ==
    \E m \in 1..Len(author_map) :
        /\ CounterGet(author_map[m].stats.file_types, <<"p", "y">>) = 3
        /\ CounterGet(author_map[m].stats.file_types, <<"g", "z">>) = 1
        /\ author_map[m].stats.total_files_changed = 5

\* C10: active_days is 0 for an AuthorStats without commits, 1 after one
\* commit, and otherwise the whole days between the earliest and the latest
\* commit date folded so far, plus one; it is never negative.
C10_ActiveDays ==
    LET folded == Folded
    IN  \A m \in 1..Len(author_map) :
            LET a      == author_map[m].stats
                S      == FoldedAt(folded, author_map[m].key)
                dates  == { folded[i].commit.date : i \in S }
                active == CalculateActiveDays(a)
            IN  /\ active >= 0
                /\ S = {} => active = 0
                /\ Cardinality(S) = 1 => active = 1
                /\ S # {} =>
                      LET first == CHOOSE d \in dates : \A x \in dates : d <= x
                          last  == CHOOSE d \in dates : \A x \in dates : x <= d
                      IN  /\ a.first_commit_date = <<first>>
                          /\ a.last_commit_date = <<last>>
                          /\ active = ((last - first) \div 2) + 1

\* C10 witness: an aggregate whose latest commit was folded before its
\* earliest, a day and a half apart.
C10_Witness ==
    \E m \in 1..Len(author_map) :
        LET S == FoldedAt(Folded, author_map[m].key)
        IN  /\ Cardinality(S) >= 2
            /\ \E i, j \in S : i < j /\ Folded[i].commit.date > Folded[j].commit.date
            /\ CalculateActiveDays(author_map[m].stats) = 2

\* the whole days from start to end, as timedelta.days counts them
WholeDays(start, end) ==
    CHOOSE n \in -14..14 : 2 * n <= end - start /\ end - start < 2 * (n + 1)

\* C11: once transform has returned, overall_stats.avg_commits_per_day is the
\* number of commits of the input divided by the whole days between start and
\* end, or by 1 when that is less than 1; the divisor is never 0, and for a
\* window of less than one day the value is the number of commits.
C11_AvgCommitsPerDay ==
    tpc \in {"done", "reported"} =>
        LET total == Len(FoldOrder(repository_data_list))
            whole == WholeDays(start_date, end_date)
            avg   == overall_stats.avg_commits_per_day
        IN  /\ avg.den # 0
            /\ avg = [num |-> total, den |-> IF whole > 1 THEN whole ELSE 1]
            /\ (end_date - start_date \in {0, 1}) => (avg.num = total /\ avg.den = 1)

\* C11 witness: transform has returned for a window of less than one day and
\* an input that holds commits.
C11_Witness ==
    /\ tpc = "done"
    /\ end_date - start_date \in {0, 1}
    /\ Len(FoldOrder(repository_data_list)) >= 1
    /\ overall_stats.avg_commits_per_day.den = 1

ScenarioInput ==
    /\ Len(repository_data_list) = 1
    /\ Len(repository_data_list[1].commits) = 1
    /\ \E p \in Authors :
          repository_data_list[1].commits[1] = CommitData(p[1], p[2], ScenarioChange)
    /\ <<start_date, end_date>> = <<SevenDays.start, SevenDays.end>>

\* the pairs of a dict that is kept as a sequence of [key, count]
Pairs(counter) == { <<counter[i].key, counter[i].count>> : i \in 1..Len(counter) }

\* C13: transform of one repository holding one commit (50 insertions, 10
\* deletions, files a.py and b.md) over a window of 7 days returns one
\* repository aggregate with total_commits 1, unique_authors 1, net_lines 40
\* and top_file_types {py: 1, md: 1}, one author aggregate with total_commits 1
\* and total_files_changed 2, and an overall avg_commits_per_day of 1/7.
C13_EndToEndScenario ==
    (ScenarioInput /\ tpc = "done") =>
        /\ Len(repository_stats) = 1
        /\ LET repo == RepoToDict(repository_stats[1])
           IN  /\ repo.total_commits = 1
               /\ repo.unique_authors = 1
               /\ repo.net_lines = 40
               /\ Len(repo.top_file_types) = 2
               /\ Pairs(repo.top_file_types) = { << <<"p", "y">>, 1 >>, << <<"m", "d">>, 1 >> }
        /\ Len(author_stats) = 1
        /\ LET author == AuthorToDict(author_stats[1])
           IN  /\ author.total_commits = 1
               /\ author.total_files_changed = 2
        /\ LET avg == overall_stats.avg_commits_per_day
           IN  avg.den # 0 /\ 7 * avg.num = 1 * avg.den

\* C13 witness: transform has returned for the input of the scenario.
C13_Witness ==
    /\ ScenarioInput
    /\ tpc = "done"
    /\ overall_stats.total_commits = 1

\* neither slack_token nor slack_webhook_url is set in the arguments
NeitherSlackSet == ~Truthy(config_args.slack_token) /\ ~Truthy(config_args.slack_webhook_url)

\* C15: constructing a Config with neither slack_token nor slack_webhook_url
\* set always raises a validation error that carries the message "Either
\* slack_token or slack_webhook_url must be provided"; every Config that was
\* constructed has at least one of the two.
C15_NeitherSlackAlwaysThatError ==
    apc = "constructed" =>
        /\ NeitherSlackSet =>
              (constructed[1].raised /\ EitherSlack \in constructed[1].errors)
        /\ ~constructed[1].raised =>
              (\/ Truthy(constructed[1].config[1].slack_token)
               \/ Truthy(constructed[1].config[1].slack_webhook_url))

\* C15 (amended): constructing a Config with neither slack_token nor
\* slack_webhook_url set always raises a validation error; the error carries
\* the message "Either slack_token or slack_webhook_url must be provided"
\* whenever every field is valid on its own, and the messages of the invalid
\* fields otherwise; every Config that was constructed has at least one of
\* the two.
C15_NeitherSlackAlwaysFails ==
    apc = "constructed" =>
        /\ NeitherSlackSet =>
              /\ constructed[1].raised
              /\ constructed[1].config = None
              /\ constructed[1].errors =
                     IF FieldErrors(config_args) = {} THEN {EitherSlack}
                     ELSE FieldErrors(config_args)
        /\ ~constructed[1].raised =>
              (\/ Truthy(constructed[1].config[1].slack_token)
               \/ Truthy(constructed[1].config[1].slack_webhook_url))

\* C15 witness: a construction with valid fields and neither credential (one
\* of them set to ""), which raised the error of the model validator.
C15_Witness ==
    /\ apc = "constructed"
    /\ NeitherSlackSet
    /\ config_args.slack_token = <<"">>
    /\ config_args.repository_paths = <<"repo">>
    /\ constructed[1].errors = {EitherSlack}

\* the configuration of the run is in error: a required credential is
\* missing, a repository path is invalid, or neither Slack credential is set
ConfigurationError ==
    \/ ~Truthy(Getenv(env, "OPENAI_API_KEY", None))
    \/ \E i \in 1..Len(cli_repos) : cli_repos[i] # "repo"
    \/ ~Truthy(env.SLACK_TOKEN) /\ ~Truthy(env.SLACK_WEBHOOK_URL)

Invoked(name) == \E i \in 1..Len(invoked) : invoked[i] = name

\* C14: in an analyze run whose configuration is in error (OPENAI_API_KEY not
\* set, a repository path that is invalid, neither Slack credential set),
\* collect_all_data and transform are never invoked.
C14_ConfigErrorsFailFast ==
    (apc # "idle" /\ apc # "construct" /\ apc # "constructed" /\ ConfigurationError) =>
        (~Invoked("collect_all_data") /\ ~Invoked("transform"))

\* C16: when delivery fails, send_report returns False with the failed send
\* as its last attempt (no text is handed to the service after it), and the
\* analyze command then ends with an exit status that is not 0.
C16_DeliveryFailureExitsNonZero ==
    /\ (result = "False" /\ call \in {"bot", "webhook"}) =>
          (/\ Len(attempts) = Len(posted) + 1
           /\ SubSeq(attempts, 1, Len(posted)) = posted)
    /\ (apc = "exited" /\ result = "False") => exit_status[1] # 0

\* the repository collect_all_data processed last
LastCollected == all_repo_data[Len(all_repo_data)]

\* an invocation of the statistics tool failed: it exited with another status
\* than 0, or could not be started
RunFailed(run) == run.outcome \in {"exit_nonzero", "not_started"}

Occurrences(seq, x) == Cardinality({ i \in 1..Len(seq) : seq[i] = x })

\* seq holds the elements of other, as often, in some order
IsPermutation(seq, other) ==
    /\ Len(seq) = Len(other)
    /\ \A x \in SetOf(seq) \cup SetOf(other) : Occurrences(seq, x) = Occurrences(other, x)

\* C17: no failure of the statistics tool or of the commit query ends
\* collect_all_data: while it runs all_repo_data holds one RepositoryData per
\* path processed, in the order of config.repository_paths, and when it
\* returns one per configured path; a repository whose tool run failed has no
\* tool data, and one whose commit query failed has no commits or the commits
\* read before the failure.
C17_CollectionNeverAborts ==
    /\ cpc # "raised"
    /\ cpc \in {"collect", "returned"} =>
          /\ Len(all_repo_data) = cidx - 1
          /\ \A i \in 1..Len(all_repo_data) :
                /\ all_repo_data[i].path = config_paths[i]
                /\ all_repo_data[i].name = Basename(config_paths[i])
    /\ cpc = "returned" => Len(all_repo_data) = Len(config_paths)
    /\ (cpc \in {"collect", "returned"} /\ all_repo_data # << >>) =>
          /\ RunFailed(tool_runs[Len(tool_runs)]) => LastCollected.gitinspector_data = None
          /\ LET available == last_query[1].available
                 outcome   == last_query[1].outcome
             IN  /\ outcome.kind \in {"repo_error", "commit_error"} =>
                       LastCollected.commits = << >>
                 /\ outcome.kind = "git_error" =>
                       IsPermutation(LastCollected.commits,
                                     SubSeq(available, 1, outcome.after))
                 /\ outcome.kind = "complete" =>
                       IsPermutation(LastCollected.commits, available)

\* C17 witness: collect_all_data returned two repositories, the first with
\* neither tool data nor commits after both of its collections failed, the
\* second, processed after it, with tool data and a partial list of commits.
C17_Witness ==
    /\ cpc = "returned"
    /\ Len(all_repo_data) = 2
    /\ all_repo_data[1].gitinspector_data = None
    /\ all_repo_data[1].commits = << >>
    /\ all_repo_data[2].gitinspector_data # None
    /\ last_query[1].outcome = [kind |-> "git_error", after |-> 1]
    /\ Len(last_query[1].available) = 2
    /\ Len(all_repo_data[2].commits) = 1

\* the structured result without data
EmptyResult == [authors |-> << >>, file_types |-> << >>, timeline |-> << >>]

\* C18: for the repository processed last, the first invocation of the tool
\* asked for JSON; if it failed there is exactly one more invocation, in
\* plain text, and otherwise none; if that one failed too, or the JSON could
\* not be parsed, the statistics of the repository are the empty structured
\* result and collect_all_data went on.
C18_RetryOnEveryFailure ==
    (cpc \in {"collect", "returned", "raised"} /\ tool_runs # << >>) =>
        /\ tool_runs[1].format = "json"
        /\ IF RunFailed(tool_runs[1])
           THEN Len(tool_runs) = 2 /\ tool_runs[2].format = "text"
           ELSE Len(tool_runs) = 1
        /\ (\/ Len(tool_runs) = 2 /\ RunFailed(tool_runs[2])
            \/ tool_runs[1].outcome = "not_json") =>
              (cpc # "raised" /\ GitinspectorDict(LastCollected) = EmptyResult)

\* C18 (amended): for the repository processed last, the first invocation of
\* the tool asked for JSON; if it exited with a status other than 0 there is
\* exactly one more invocation, in plain text, and otherwise (the tool could
\* not be started, or it exited with 0) none; if the tool could not be
\* started, or the text invocation failed too, or the JSON could not be
\* parsed, the statistics of the repository are the empty structured result
\* and collect_all_data went on.
C18_RetryOnNonZeroExit ==
    (cpc \in {"collect", "returned", "raised"} /\ tool_runs # << >>) =>
        /\ tool_runs[1].format = "json"
        /\ IF tool_runs[1].outcome = "exit_nonzero"
           THEN Len(tool_runs) = 2 /\ tool_runs[2].format = "text"
           ELSE Len(tool_runs) = 1
        /\ (\/ RunFailed(tool_runs[Len(tool_runs)])
            \/ tool_runs[1].outcome = "not_json") =>
              (cpc # "raised" /\ GitinspectorDict(LastCollected) = EmptyResult)

\* C18 witness: the JSON invocation exited with a status other than 0, the
\* text invocation did too, and the repository was collected without
\* statistics.
C18_Witness ==
    /\ cpc = "returned"
    /\ Len(tool_runs) = 2
    /\ tool_runs[1] = [format |-> "json", outcome |-> "exit_nonzero"]
    /\ tool_runs[2] = [format |-> "text", outcome |-> "exit_nonzero"]
    /\ LastCollected.gitinspector_data = None
    /\ GitinspectorDict(LastCollected) = EmptyResult

\* send_report runs on the bot-token path with a report longer than the
\* ceiling, and the title message has been handed to the chat API
LongBotReportStarted == call = "bot" /\ Len(report) > max_length /\ pc # "send"

\* the chunks that are not blank
NonBlank(chunks) == SelectSeq(chunks, LAMBDA chunk : Strip(chunk) # << >>)

\* C19: for a report longer than the ceiling on the bot-token path, the first
\* text handed to the chat API is the title; no chunk is handed over before
\* the title was accepted and the splitter returned; the chunks handed over
\* are the first non-blank chunks of the splitter, in its order, each once;
\* and when send_report returns True the accepted messages are the title
\* followed by every non-blank chunk, in order, each once.
C19_TitleThenChunksInOrder ==
    LongBotReportStarted =>
        /\ attempts # << >>
        /\ attempts[1] = TitleText(title)
        /\ posted = SubSeq(attempts, 1, Len(posted))
        /\ (pc = "split" \/ posted = << >>) => attempts = << TitleText(title) >>
        /\ pc \in {"post", "done"} =>
              /\ Len(attempts) - 1 <= Len(NonBlank(sections))
              /\ Tail(attempts) = SubSeq(NonBlank(sections), 1, Len(attempts) - 1)
        /\ result = "True" => posted = << TitleText(title) >> \o NonBlank(sections)

\* C19 witness: a long report was delivered as the title and two different
\* chunks.
C19_Witness ==
    /\ LongBotReportStarted
    /\ result = "True"
    /\ Len(sections) >= 2
    /\ sections[1] # sections[2]
    /\ posted = << TitleText(title) >> \o sections

\* C20: a step of the splitter that meets a "##" header line while the buffer
\* accumulated before it is not blank and exceeds 70% of the ceiling
\* completes that buffer as the next chunk and leaves the header line as the
\* beginning of the new buffer, so the header is not the last line of the
\* chunk it completed.
C20_HeaderBeginsNextChunk ==
    [][ (/\ pc = "split"
         /\ idx <= Len(lines)
         /\ StartsWithHeader(lines[idx])
         /\ Strip(current_section) # << >>
         /\ OverSeventyPercent(Len(current_section), max_length))
        => (/\ sections' = Append(sections, Strip(current_section))
            /\ current_section' = lines[idx]) ]_vars

\* every repository of the input lists its commits newest first
NewestFirstInput ==
    \A r \in 1..Len(repository_data_list) :
        LET commits == repository_data_list[r].commits
        IN  \A i, j \in 1..Len(commits) : i < j => commits[i].date >= commits[j].date

\* the arrangements of the positions of a set, each position once
Arrangements(positions) ==
    { f \in [1..Cardinality(positions) -> positions] :
        \A i, j \in 1..Cardinality(positions) : i # j => f[i] # f[j] }

\* C21: when every repository lists its commits newest first,
\* recent_commit_messages of every author holds the messages of the (up to)
\* 10 most recent commits of that author, newest first by commit date, also
\* for an author with commits in several repositories.
C21_RecentMessagesNewestFirst ==
    (tpc = "done" /\ NewestFirstInput) =>
        LET folded == Folded
        IN  \A m \in 1..Len(author_stats) :
                LET a      == author_stats[m]
                    S      == FoldedAt(folded, AuthorKey(a.name, a.email))
                    recent == AuthorToDict(a).recent_commit_messages
                IN  \E f \in Arrangements(S) :
                       /\ \A i, j \in 1..Cardinality(S) :
                             i < j => folded[f[i]].commit.date >= folded[f[j]].commit.date
                       /\ recent = Take([i \in 1..Cardinality(S) |-> folded[f[i]].commit.message],
                                        10)

\* the messages of the folded commits that went to the aggregate of a key, in
\* fold order
MessagesOf(folded, key) ==
    LET own == SelectSeq(folded, LAMBDA entry : KeyOf(entry.commit) = key)
    IN  [i \in 1..Len(own) |-> own[i].commit.message]

\* the smaller of two numbers
Min(a, b) == IF a < b THEN a ELSE b

C23_FirstTwentyTruncated ==
    \A r \in 1..Len(repository_stats) :
        LET commits == repository_data_list[r].commits
            recent  == RepoToDict(repository_stats[r]).recent_commits
        IN  /\ Len(recent) = Min(20, Len(commits))
            /\ \A i \in 1..Len(recent) :
                  LET message == commits[i].message
                      shown   == recent[i].message
                  IN  /\ recent[i].date = IsoFormat(commits[i].date)
                      /\ recent[i].author = commits[i].author_name
                      /\ recent[i].changes = commits[i].insertions + commits[i].deletions
                      /\ Len(shown) = Min(100, Len(message))
                      /\ \A k \in 1..Len(shown) : shown[k] = message[k]
                      /\ Len(message) <= 100 => shown = message

\* C23 witness: a repository of more than 20 commits is reported with 20
\* entries, one of them a message of more than 100 characters cut to 100,
\* another a message of exactly 100 characters.
C23_Witness ==
    \E r \in 1..Len(repository_stats) :
        LET commits == repository_data_list[r].commits
            recent  == RepoToDict(repository_stats[r]).recent_commits
        IN  /\ Len(commits) > 20
            /\ Len(recent) = 20
            /\ \E i \in 1..20 : Len(commits[i].message) > 100 /\ Len(recent[i].message) = 100
            /\ \E i \in 1..20 : Len(commits[i].message) = 100 /\ recent[i].message = commits[i].message

\* C24: total_files_changed of an author is the sum, over the commits folded
\* into that author, of the number of files of the commit, so a file touched
\* in 3 commits counts 3; total_files_changed of a repository is the number of
\* distinct file paths over its commits.
C24_FilesChangedCounts ==
    LET folded == Folded
        files  == [i \in 1..Len(folded) |-> Len(folded[i].commit.files_changed)]
    IN  /\ \A m \in 1..Len(author_map) :
              LET a == author_map[m].stats
              IN  /\ a.total_files_changed = SumOf(files, FoldedAt(folded, author_map[m].key))
                  /\ AuthorToDict(a).total_files_changed = a.total_files_changed
        /\ \A r \in 1..Len(repository_stats) :
              LET commits == repository_data_list[r].commits
              IN  RepoToDict(repository_stats[r]).total_files_changed =
                      Cardinality(UNION { SetOf(commits[i].files_changed) :
                                            i \in 1..Len(commits) })

\* C24 witness: three commits of one author in one repository that change
\* the same two files: the author counts 6, the repository 2.
C24_Witness ==
    /\ tpc = "done"
    /\ Len(repository_stats) = 1
    /\ Len(author_stats) = 1
    /\ author_stats[1].total_commits = 3
    /\ AuthorToDict(author_stats[1]).total_files_changed = 6
    /\ RepoToDict(repository_stats[1]).total_files_changed = 2

\* the reported dicts of the repository aggregates
RepoDicts == [r \in 1..Len(repository_stats) |-> RepoToDict(repository_stats[r])]

\* C25: once transform has returned, total_commits, total_insertions and
\* total_deletions of overall_stats are the sums of these fields over the
\* repository aggregates, and net_lines is total_insertions - total_deletions,
\* negative when more was deleted; with no repositories all four are 0.
C25_OverallTotals ==
    tpc = "done" =>
        LET repos == RepoDicts
            all   == 1..Len(repos)
        IN  /\ overall_stats.total_commits =
                   SumOf([r \in all |-> repos[r].total_commits], all)
            /\ overall_stats.total_insertions =
                   SumOf([r \in all |-> repos[r].total_insertions], all)
            /\ overall_stats.total_deletions =
                   SumOf([r \in all |-> repos[r].total_deletions], all)
            /\ overall_stats.net_lines =
                   overall_stats.total_insertions - overall_stats.total_deletions
            /\ repository_data_list = << >> =>
                  /\ overall_stats.total_commits = 0
                  /\ overall_stats.total_insertions = 0
                  /\ overall_stats.total_deletions = 0
                  /\ overall_stats.net_lines = 0

\* C25 witness: transform has returned for two repositories that hold
\* commits, with more lines deleted than inserted.
C25_Witness ==
    /\ tpc = "done"
    /\ Len(repository_stats) = 2
    /\ \A r \in 1..2 : repository_stats[r].total_commits >= 1
    /\ overall_stats.total_commits = 3
    /\ overall_stats.net_lines < 0

\* the extensions that occur in the histogram of some repository
OccurringExtensions ==
    UNION { CounterKeys(repository_stats[r].file_types) : r \in 1..Len(repository_stats) }

\* the sum over the repositories of the count each histogram holds for a key
SummedCount(key) ==
    SumOf([r \in 1..Len(repository_stats) |-> CounterGet(repository_stats[r].file_types, key)],
          1..Len(repository_stats))

\* C26: top_file_types of overall_stats is the sum of the per-repository
\* histograms: every extension that occurs in a repository is a key of it,
\* with the sum of its per-repository counts.
C26_CombinedHistogramIsTheSum ==
    tpc = "done" =>
        /\ CounterKeys(overall_stats.top_file_types) = OccurringExtensions
        /\ \A e \in OccurringExtensions :
              CounterGet(overall_stats.top_file_types, e) = SummedCount(e)

\* C26 as the code has it: top_file_types of overall_stats holds the 10 most
\* frequent extensions of the sum of the per-repository histograms, all of
\* them when at most 10 occur; every extension it holds occurs once, with the
\* sum of its per-repository counts; an extension that occurs is missing only
\* when 10 others are listed, none with a smaller sum.
C26_TopTenOfTheSum ==
    tpc = "done" =>
        LET top  == overall_stats.top_file_types
            keys == CounterKeys(top)
        IN  /\ keys \subseteq OccurringExtensions
            /\ Len(top) = Min(10, Cardinality(OccurringExtensions))
            /\ Cardinality(keys) = Len(top)
            /\ \A e \in keys : CounterGet(top, e) = SummedCount(e)
            /\ \A e \in OccurringExtensions \ keys :
                  \A k \in keys : SummedCount(k) >= SummedCount(e)
            /\ Cardinality(OccurringExtensions) <= 10 => keys = OccurringExtensions

\* C26 witness: two repositories that share an extension and hold more than
\* 10 extensions between them; one extension that occurs is not reported.
C26_Witness ==
    /\ tpc = "done"
    /\ Len(repository_stats) = 2
    /\ CounterGet(repository_stats[1].file_types, <<"p", "y">>) >= 1
    /\ CounterGet(repository_stats[2].file_types, <<"p", "y">>) >= 1
    /\ Cardinality(OccurringExtensions) > 10
    /\ Len(overall_stats.top_file_types) = 10
    /\ OccurringExtensions \ CounterKeys(overall_stats.top_file_types) # {}

\* C27: unique_authors of a repository is the number of distinct author
\* emails among its commits: two commits with one display name and two
\* emails count as two authors, two commits with one email and two display
\* names as one.
C27_UniqueAuthorsByEmail ==
    \A r \in 1..Len(repository_stats) :
        LET commits == repository_data_list[r].commits
            unique  == RepoToDict(repository_stats[r]).unique_authors
        IN  /\ unique = Cardinality({ commits[i].author_email : i \in 1..Len(commits) })
            /\ Len(commits) = 2 =>
                  /\ (/\ commits[1].author_name = commits[2].author_name
                      /\ commits[1].author_email # commits[2].author_email) => unique = 2
                  /\ (/\ commits[1].author_email = commits[2].author_email
                      /\ commits[1].author_name # commits[2].author_name) => unique = 1

\* C27 witness: a repository of three commits under three (name, email)
\* pairs, two of them with one display name and two with one email, is
\* reported with two authors.
C27_Witness ==
    \E r \in 1..Len(repository_stats) :
        LET commits == repository_data_list[r].commits
        IN  /\ Len(commits) = 3
            /\ \E i, j \in 1..3 : /\ commits[i].author_name = commits[j].author_name
                                  /\ commits[i].author_email # commits[j].author_email
            /\ \E i, j \in 1..3 : /\ commits[i].author_email = commits[j].author_email
                                  /\ commits[i].author_name # commits[j].author_name
            /\ RepoToDict(repository_stats[r]).unique_authors = 2

\* the sum of a field over the dicts of a list
SumField(dicts, field) ==
    SumOf([i \in 1..Len(dicts) |-> dicts[i][field]], 1..Len(dicts))

\* C28: in the document of a returned transform, total_commits summed over
\* the author aggregates equals total_commits summed over the repository
\* aggregates, overall_stats.total_commits and summary.total_commits; the
\* insertions and the deletions are conserved the same way between authors,
\* repositories and overall_stats; summary.total_authors is the number of
\* author aggregates.
C28_Conservation ==
    tpc = "done" =>
        LET data    == ToDict(overall_stats, repository_stats, author_stats, time_window)
            authors == data.author_stats
            repos   == data.repository_stats
        IN  /\ SumField(authors, "total_commits") = SumField(repos, "total_commits")
            /\ SumField(repos, "total_commits") = data.overall_stats.total_commits
            /\ data.overall_stats.total_commits = data.summary.total_commits
            /\ SumField(authors, "total_insertions") = SumField(repos, "total_insertions")
            /\ SumField(repos, "total_insertions") = data.overall_stats.total_insertions
            /\ SumField(authors, "total_deletions") = SumField(repos, "total_deletions")
            /\ SumField(repos, "total_deletions") = data.overall_stats.total_deletions
            /\ data.summary.total_authors = Len(authors)
            /\ data.summary.total_authors = Len(author_map)

\* C28 witness: a returned transform of two repositories and two authors,
\* one of them with commits in both repositories.
C28_Witness ==
    /\ tpc = "done"
    /\ Len(repository_stats) = 2
    /\ Len(author_stats) = 2
    /\ \E k \in 1..2 : Cardinality(author_stats[k].repositories) = 2
    /\ overall_stats.total_commits = 3
    /\ overall_stats.total_insertions = 5

\* send_report has returned False for a report longer than the ceiling on
\* the bot-token path
LongBotReportFailed == LongBotReportStarted /\ result = "False"

\* C29: when a post fails at the k-th message of a long report, send_report
\* returns False at once; the k - 1 messages accepted before are the title
\* and the first chunks, in order, and stay delivered; the failed message is
\* the last one handed over, handed over once, and no later chunk follows.
\* No step ever takes back a delivered message.
C29_PartialDeliveryNoRollback ==
    /\ [](LongBotReportFailed =>
            LET planned == << TitleText(title) >> \o NonBlank(sections)
                k       == Len(attempts)
            IN  /\ pc = "done"
                /\ k >= 1
                /\ k <= Len(planned)
                /\ attempts = SubSeq(planned, 1, k)
                /\ posted = SubSeq(planned, 1, k - 1))
    /\ [][posted = SubSeq(posted', 1, Len(posted))]_vars

\* C29 witness: send_report returned False after the title and one chunk were
\* delivered, with a chunk left that was never handed over.
C29_Witness ==
    /\ LongBotReportFailed
    /\ Len(posted) = 2
    /\ Len(attempts) = 3
    /\ Len(NonBlank(sections)) >= 3

\* C30: no chunk of _split_report_by_sections is empty or holds whitespace
\* only; the list it returns is empty exactly when the report holds no
\* character that is not whitespace; and a long report that send_report
\* delivered was posted as 1 + (number of chunks) messages.
C30_NoBlankChunk ==
    /\ \A i \in 1..Len(sections) :
          /\ sections[i] # << >>
          /\ \E k \in 1..Len(sections[i]) : ~IsSpace(sections[i][k])
    /\ (SplitReturned \/ (LongBotReportStarted /\ result = "True")) =>
          (sections = << >> <=> \A k \in 1..Len(report) : IsSpace(report[k]))
    /\ (LongBotReportStarted /\ result = "True") =>
          /\ Len(posted) = 1 + Len(sections)
          /\ Len(attempts) = 1 + Len(sections)

\* C30 witness: a long report with a line of whitespace only between two
\* other lines was delivered as the title and two chunks.
C30_Witness ==
    /\ LongBotReportStarted
    /\ result = "True"
    /\ \E i \in 2..(Len(lines) - 1) :
          /\ lines[i] # << >>
          /\ Strip(lines[i]) = << >>
          /\ Strip(lines[i - 1]) # << >>
          /\ Strip(lines[i + 1]) # << >>
    /\ Len(sections) = 2
    /\ Len(posted) = 3

====
